---------------------------- MODULE Spec2Model ----------------------------
(***************************************************************************)
(* A model of the PaperBLAST MCP server's extraction engine                *)
(* (examples/skills/02-paperblast/scripts/paperblast_mcp.py): the parsers  *)
(* _parse_litsearch_results, _parse_hit_block, _parse_genome_search,       *)
(* _parse_organism_index, the resolver _find_organism_id and the tool      *)
(* handlers paperblast_search, paperblast_gene_papers,                     *)
(* curated_blast_search and gapmind_check.                                 *)
(*                                                                         *)
(* Strings whose characters matter (organism names, gene identifiers) are  *)
(* sequences of one-character strings; texts that are only copied are      *)
(* TLA+ strings.  A handler is split at its one suspension point, the      *)
(* awaited _get: the Invoke action issues the request, the Respond action  *)
(* is everything the handler does with the response.                       *)
(***************************************************************************)
EXTENDS Integers, Sequences, FiniteSets, TLC

VARIABLES
    pc,         \* position of the invocation: "idle", "await", "await2", "done"
    tool,       \* the operation invoked ("none" before the call)
    params,     \* the validated input record of the invocation
    requests,   \* the outbound requests issued so far, in order
    soup,       \* the document the last request returned
    organisms,  \* the organism index held by the invocation
    result      \* the value returned to the caller

vars == <<pc, tool, params, requests, soup, organisms, result>>

-----------------------------------------------------------------------------
(* Strings as sequences of characters.                                     *)

\* str.lower() on one character of the model's alphabet.
LowerChar(c) ==
    CASE c = "A" -> "a"
      [] c = "B" -> "b"
      [] OTHER -> c

\* str.lower()
Lower(s) == [i \in 1..Len(s) |-> LowerChar(s[i])]

\* Characters str.strip() removes.
IsSpace(c) == c = " "

RECURSIVE LStrip(_)
LStrip(s) ==
    IF s # <<>> /\ IsSpace(Head(s)) THEN LStrip(Tail(s)) ELSE s

RECURSIVE RStrip(_)
RStrip(s) ==
    IF s # <<>> /\ IsSpace(s[Len(s)]) THEN RStrip(SubSeq(s, 1, Len(s) - 1)) ELSE s

\* str.strip()
Strip(s) == RStrip(LStrip(s))

\* sub occurs in s at position i (1-based)
OccursAt(s, sub, i) ==
    /\ i >= 1
    /\ i + Len(sub) - 1 <= Len(s)
    /\ \A k \in 1..Len(sub) : s[i + k - 1] = sub[k]

\* Python's `sub in s`
Contains(s, sub) == \E i \in 1..(Len(s) + 1) : OccursAt(s, sub, i)

\* s.split(sep)[-1]: what follows the last of the separators found scanning
\* left to right without overlap.
RECURSIVE SplitLast(_, _)
SplitLast(s, sep) ==
    IF ~Contains(s, sep) THEN s
    ELSE LET i == CHOOSE j \in 1..Len(s) :
                      /\ OccursAt(s, sep, j)
                      /\ \A k \in 1..(j - 1) : ~OccursAt(s, sep, k)
         IN  SplitLast(SubSeq(s, i + Len(sep), Len(s)), sep)

\* Code-point order of the model's alphabet, for Python's string comparison.
Ord(c) ==
    CASE c = " " -> 32
      [] c = "/" -> 47
      [] c = ":" -> 58
      [] c = "A" -> 65
      [] c = "B" -> 66
      [] c = "a" -> 97
      [] c = "b" -> 98
      [] c = "z" -> 122
      [] OTHER -> 0

\* Python's s < t on strings
RECURSIVE StrLess(_, _)
StrLess(s, t) ==
    IF t = <<>> THEN FALSE
    ELSE IF s = <<>> THEN TRUE
    ELSE IF Head(s) # Head(t) THEN Ord(Head(s)) < Ord(Head(t))
    ELSE StrLess(Tail(s), Tail(t))

-----------------------------------------------------------------------------
(* difflib.SequenceMatcher / get_close_matches, as _find_organism_id uses  *)
(* them (no junk, sequences far shorter than the autojunk threshold).      *)

\* lengths k of a common block a[i..i+k-1] = b[j..j+k-1]
BlockAt(a, b, i, j, k) ==
    /\ i + k - 1 <= Len(a)
    /\ j + k - 1 <= Len(b)
    /\ \A d \in 0..(k - 1) : a[i + d] = b[j + d]

\* SequenceMatcher.find_longest_match: the longest block, the earliest in a
\* among the longest, the earliest in b among those.  <<i, j, k>>, k = 0 if none.
LongestMatch(a, b) ==
    LET Blocks == {t \in (1..Len(a)) \X (1..Len(b)) \X (1..Len(a)) :
                       BlockAt(a, b, t[1], t[2], t[3])}
    IN  IF Blocks = {} THEN <<1, 1, 0>>
        ELSE CHOOSE t \in Blocks :
                 \A u \in Blocks :
                     \/ t[3] > u[3]
                     \/ t[3] = u[3] /\ t[1] < u[1]
                     \/ t[3] = u[3] /\ t[1] = u[1] /\ t[2] <= u[2]

\* Sum of the sizes of SequenceMatcher.get_matching_blocks().
RECURSIVE MatchCount(_, _)
MatchCount(a, b) ==
    IF a = <<>> \/ b = <<>> THEN 0
    ELSE LET m == LongestMatch(a, b)
         IN  IF m[3] = 0 THEN 0
             ELSE m[3]
                  + MatchCount(SubSeq(a, 1, m[1] - 1), SubSeq(b, 1, m[2] - 1))
                  + MatchCount(SubSeq(a, m[1] + m[3], Len(a)),
                               SubSeq(b, m[2] + m[3], Len(b)))

\* cutoff=0.4 of get_close_matches, as the fraction CutoffNum / CutoffDen
CutoffNum == 2
CutoffDen == 5

\* SequenceMatcher.ratio() >= cutoff, ratio = 2*M/T (1.0 when T = 0)
ClearsCutoff(x, word) ==
    LET T == Len(x) + Len(word)
    IN  IF T = 0 THEN TRUE
        ELSE 2 * MatchCount(x, word) * CutoffDen >= CutoffNum * T

\* (ratio(x), x) < (ratio(y), y) as Python compares the scored tuples
ScoreLess(x, y, word) ==
    LET Tx == Len(x) + Len(word)
        Ty == Len(y) + Len(word)
        Mx == IF Tx = 0 THEN 1 ELSE 2 * MatchCount(x, word)
        My == IF Ty = 0 THEN 1 ELSE 2 * MatchCount(y, word)
        Dx == IF Tx = 0 THEN 1 ELSE Tx
        Dy == IF Ty = 0 THEN 1 ELSE Ty
    IN  \/ Mx * Dy < My * Dx
        \/ Mx * Dy = My * Dx /\ StrLess(x, y)

\* difflib.get_close_matches(word, possibilities, n=1, cutoff=0.4): the set
\* holding the best-scoring possibility that clears the cutoff, or no element.
GetCloseMatches(word, possibilities) ==
    LET good == {x \in possibilities : ClearsCutoff(x, word)}
    IN  {x \in good : \A y \in good : y = x \/ ScoreLess(y, x, word)}

-----------------------------------------------------------------------------
(* The fuzzy organism resolver.                                            *)

\* Python's None, where an organism is expected
NoOrganism == [org_id |-> 0, name |-> <<>>]

\* mutation: the substring stage tried before the exact stage, taking the
\* first containing name
FindOrganismSubstringFirst(orgs, query) ==
    LET query_lower == Strip(Lower(query))
        subs == {i \in 1..Len(orgs) : Contains(Lower(orgs[i].name), query_lower)}
    IN  IF subs # {}
        THEN orgs[CHOOSE i \in subs : \A j \in subs : i <= j]
        ELSE NoOrganism

\* mutation: the similarity stage is asked before the substring stage
FindOrganismSimilarityFirst(orgs, query) ==
    LET query_lower == Strip(Lower(query))
        exact == {i \in 1..Len(orgs) : Lower(orgs[i].name) = query_lower}
        subs == {i \in 1..Len(orgs) : Contains(Lower(orgs[i].name), query_lower)}
        shortest == CHOOSE i \in subs :
                        \A j \in subs :
                            \/ Len(orgs[i].name) < Len(orgs[j].name)
                            \/ Len(orgs[i].name) = Len(orgs[j].name) /\ i <= j
        keys == {Lower(orgs[i].name) : i \in 1..Len(orgs)}
        close == GetCloseMatches(query_lower, keys)
        mapped == CHOOSE i \in 1..Len(orgs) :
                      /\ Lower(orgs[i].name) \in close
                      /\ \A j \in 1..Len(orgs) :
                             Lower(orgs[j].name) \in close => j <= i
    IN  IF exact # {} THEN orgs[CHOOSE i \in exact : \A j \in exact : i <= j]
        ELSE IF close # {} THEN orgs[mapped]
        ELSE IF subs # {} THEN orgs[shortest]
        ELSE NoOrganism

\* mutation: the similarity stage answers with the lowercased key of
\* name_map in place of the organism's own name
FindOrganismLowercased(orgs, query) ==
    LET query_lower == Strip(Lower(query))
        exact == {i \in 1..Len(orgs) : Lower(orgs[i].name) = query_lower}
        subs == {i \in 1..Len(orgs) : Contains(Lower(orgs[i].name), query_lower)}
        shortest == CHOOSE i \in subs :
                        \A j \in subs :
                            \/ Len(orgs[i].name) < Len(orgs[j].name)
                            \/ Len(orgs[i].name) = Len(orgs[j].name) /\ i <= j
        keys == {Lower(orgs[i].name) : i \in 1..Len(orgs)}
        close == GetCloseMatches(query_lower, keys)
        mapped == CHOOSE i \in 1..Len(orgs) :
                      /\ Lower(orgs[i].name) \in close
                      /\ \A j \in 1..Len(orgs) :
                             Lower(orgs[j].name) \in close => j <= i
    IN  IF exact # {} THEN orgs[CHOOSE i \in exact : \A j \in exact : i <= j]
        ELSE IF subs # {} THEN orgs[shortest]
        ELSE IF close # {}
        THEN [org_id |-> orgs[mapped].org_id, name |-> Lower(orgs[mapped].name)]
        ELSE NoOrganism

\* _find_organism_id(organisms, query)
FindOrganismId(orgs, query) ==
    LET query_lower == Strip(Lower(query))
        exact == {i \in 1..Len(orgs) : Lower(orgs[i].name) = query_lower}
        subs == {i \in 1..Len(orgs) : Contains(Lower(orgs[i].name), query_lower)}
        \* min(substring_matches, key=len): the first of the shortest
        shortest == CHOOSE i \in subs :
                        \A j \in subs :
                            \/ Len(orgs[i].name) < Len(orgs[j].name)
                            \/ Len(orgs[i].name) = Len(orgs[j].name) /\ i <= j
        \* name_map: the last organism of each lowercased name
        keys == {Lower(orgs[i].name) : i \in 1..Len(orgs)}
        close == GetCloseMatches(query_lower, keys)
        mapped == CHOOSE i \in 1..Len(orgs) :
                      /\ Lower(orgs[i].name) \in close
                      /\ \A j \in 1..Len(orgs) :
                             Lower(orgs[j].name) \in close => j <= i
    IN  IF exact # {} THEN orgs[CHOOSE i \in exact : \A j \in exact : i <= j]
        ELSE IF subs # {} THEN orgs[shortest]
        ELSE IF close # {} THEN orgs[mapped]
        ELSE NoOrganism

-----------------------------------------------------------------------------
(* Bounded inputs of the resolver.                                         *)

MaxOrgs == 2
MaxQueryLen == 3

QueryChars == {"a", "A", "b", " "}

RECURSIVE StringsUpTo(_, _)
StringsUpTo(chars, n) ==
    IF n = 0 THEN {<<>>}
    ELSE LET shorter == StringsUpTo(chars, n - 1)
         IN  shorter \cup {Append(s, c) : s \in shorter, c \in chars}

\* organism names as _parse_organism_index yields them: non-empty, trimmed
OrgNames ==
    { <<"a">>, <<"a", "b">>, <<"A", "b">>, <<"b", "a", "b">>, <<"a", " ", "b">>,
      <<"a", "b", "a", "b", "a", "b", "a">> }

\* an index: the organism at position i carries org_id i
Indexes ==
    UNION { { [i \in 1..n |-> [org_id |-> i, name |-> names[i]]] :
                names \in [1..n -> OrgNames] } : n \in 0..MaxOrgs }

ResolverInit ==
    /\ pc = "idle"
    /\ tool = "_find_organism_id"
    /\ organisms \in Indexes
    /\ params \in {[query |-> q] : q \in StringsUpTo(QueryChars, MaxQueryLen)}
    /\ requests = <<>>
    /\ soup = <<>>
    /\ result = NoOrganism

CallFindOrganismId ==
    /\ pc = "idle"
    /\ tool = "_find_organism_id"
    /\ result' = FindOrganismId(organisms, params.query)
    /\ pc' = "done"
    /\ UNCHANGED <<tool, params, requests, soup, organisms>>

ResolverNext == CallFindOrganismId

SpecResolver == ResolverInit /\ [][ResolverNext]_vars

-----------------------------------------------------------------------------
(* Texts of the document.  _clean_text collapses whitespace, so a cleaned  *)
(* text is a sequence of words; a regular expression of the parsers reads  *)
(* consecutive words.                                                      *)

\* int(tok) of a word that is all digits, -1 of any other word
ToInt(tok) ==
    CASE tok = "0" -> 0
      [] tok = "1" -> 1
      [] tok = "2" -> 2
      [] tok = "3" -> 3
      [] tok = "12" -> 12
      [] OTHER -> -1

\* a word matching papers? at its start (the regex is case-sensitive)
StartsWithPaper(tok) == tok \in {"paper", "papers"}

\* "paper" in word.lower()
HasPaperLower(tok) == tok \in {"paper", "papers", "Paper", "Papers"}

\* one 'curatedpaper::' anchor's contribution to total_curated_papers
PaperCountOf(text) ==
    LET hits == {i \in 1..(Len(text) - 1) :
                     ToInt(text[i]) >= 0 /\ StartsWithPaper(text[i + 1])}
    IN  IF hits # {}
        THEN ToInt(text[CHOOSE i \in hits : \A j \in hits : i <= j])
        ELSE IF \E i \in 1..Len(text) : HasPaperLower(text[i]) THEN 1
        ELSE 0

\* re.search(r"Found\s+(\d+)\s+similar\s+proteins?", text): the number, -1 if
\* the text does not match
FoundCount(text) ==
    LET hits == {i \in 1..(Len(text) - 3) :
                     /\ text[i] = "Found"
                     /\ ToInt(text[i + 1]) >= 0
                     /\ text[i + 2] = "similar"
                     /\ text[i + 3] \in {"protein", "proteins"}}
    IN  IF hits = {} THEN -1
        ELSE ToInt(text[(CHOOSE i \in hits : \A j \in hits : i <= j) + 1])

\* word.lower() of the words the warning pattern reads
LowerWord(tok) ==
    CASE tok = "Sorry" -> "sorry"
      [] tok = "Error" -> "error"
      [] tok = "No" -> "no"
      [] tok = "Not" -> "not"
      [] tok = "Function:" -> "function:"
      [] tok = "Subunit:" -> "subunit:"
      [] OTHER -> tok

\* re.search(r"\b(sorry|error|no results|no hits|not found)\b", text, re.I)
IsWarningText(text) ==
    \/ \E i \in 1..Len(text) : LowerWord(text[i]) \in {"sorry", "error"}
    \/ \E i \in 1..(Len(text) - 1) :
           \/ LowerWord(text[i]) = "no" /\ LowerWord(text[i + 1]) \in {"results", "hits"}
           \/ LowerWord(text[i]) = "not" /\ LowerWord(text[i + 1]) = "found"

-----------------------------------------------------------------------------
(* The parsed document: the body's children in document order.  A node is  *)
(* a paragraph ("p"; hit = its style matches margin-top: 1em), a list      *)
(* ("ul", with its items), a header ("h3") or another element.  An inline  *)
(* element carries its tag, the logger argument of its onmousedown         *)
(* attribute split at "::" (marker) and its cleaned text.                  *)

\* an href attribute: the path before "?" and the query parameters after it,
\* each a pair of a key and the characters of its value
Href(path, query) == [path |-> path, query |-> query]

NoHref == Href("", <<>>)

\* an inline element: href, title and style are absent and it has no child
\* elements (inner) unless set below
El(tag, marker, text) ==
    [tag |-> tag, marker |-> marker, text |-> text,
     href |-> NoHref, title |-> "", style |-> "", inner |-> <<>>]

WithHref(el, href) == [el EXCEPT !.href = href]

WithTitle(el, title) == [el EXCEPT !.title = title]

WithStyle(el, style) == [el EXCEPT !.style = style]

WithInner(el, inner) == [el EXCEPT !.inner = inner]

Li(kids) == [kids |-> kids]

Node(tag, hit, kids, items) ==
    [tag |-> tag, hit |-> hit, kids |-> kids, items |-> items]

\* attrs={"onmousedown": re.compile(key + "::")}
HasMarker(el, key) ==
    \E i \in 1..(Len(el.marker) - 1) : el.marker[i] = key

RECURSIVE Flatten(_)
Flatten(seqs) ==
    IF seqs = <<>> THEN <<>> ELSE Head(seqs) \o Flatten(Tail(seqs))

\* an element followed by its child elements
WithDescendants(els) ==
    Flatten([k \in 1..Len(els) |-> <<els[k]>> \o els[k].inner])

\* the inline elements below a node, in document order
Elements(node) ==
    WithDescendants(node.kids)
    \o Flatten([i \in 1..Len(node.items) |-> WithDescendants(node.items[i].kids)])

\* node.find_all("a", attrs={"onmousedown": re.compile(key + "::")})
FindAllAnchors(node, key) ==
    SelectSeq(Elements(node), LAMBDA el : el.tag = "a" /\ HasMarker(el, key))

\* _clean_text(node)
CleanText(node) ==
    LET els == Elements(node)
    IN  Flatten([i \in 1..Len(els) |-> els[i].text])

RECURSIVE SumSeq(_)
SumSeq(ns) == IF ns = <<>> THEN 0 ELSE Head(ns) + SumSeq(Tail(ns))

-----------------------------------------------------------------------------
(* _parse_hit_block                                                        *)

\* href.startswith("/"), for the paths of the model
IsRootPath(path) == path \in {"/pmc/articles/PMC1", "/cgi-bin/litSearch.cgi"}

\* BASE_URL + path
PathWithBase(path) ==
    CASE path = "/pmc/articles/PMC1" -> "https://papers.genomics.lbl.gov/pmc/articles/PMC1"
      [] path = "/cgi-bin/litSearch.cgi"
           -> "https://papers.genomics.lbl.gov/cgi-bin/litSearch.cgi"
      [] OTHER -> path

\* s_url of a 'pb::' anchor
SnippetUrl(href) ==
    IF IsRootPath(href.path) THEN [href EXCEPT !.path = PathWithBase(href.path)]
    ELSE href

\* mutation: an anchor whose title is already held replaces the snippet held
RECURSIVE SnippetsLastKept(_, _)
SnippetsLastKept(anchors, acc) ==
    IF anchors = <<>> THEN acc
    ELSE LET s_title == Head(anchors).text
             snippet == [title |-> s_title, url |-> SnippetUrl(Head(anchors).href),
                         source_db |-> "text_mining"]
         IN  IF s_title = <<>> THEN SnippetsLastKept(Tail(anchors), acc)
             ELSE IF \A k \in 1..Len(acc) : acc[k].title # s_title
             THEN SnippetsLastKept(Tail(anchors), Append(acc, snippet))
             ELSE SnippetsLastKept(Tail(anchors),
                      [k \in 1..Len(acc) |->
                          IF acc[k].title = s_title THEN snippet ELSE acc[k]])

\* the snippets of the 'pb::' anchors, deduplicated by title
RECURSIVE Snippets(_, _)
Snippets(anchors, acc) ==
    IF anchors = <<>> THEN acc
    ELSE LET s_title == Head(anchors).text
         IN  IF s_title # <<>> /\ \A k \in 1..Len(acc) : acc[k].title # s_title
             THEN Snippets(Tail(anchors),
                           Append(acc, [title |-> s_title,
                                        url |-> SnippetUrl(Head(anchors).href),
                                        source_db |-> "text_mining"]))
             ELSE Snippets(Tail(anchors), acc)

\* mutation: the two single-source labels exchanged
PaperSourceSwapped(total_curated_papers, paper_snippets) ==
    LET has_curated == total_curated_papers > 0
        has_text_mined == Len(paper_snippets) > 0
    IN  IF has_curated /\ has_text_mined THEN "both"
        ELSE IF has_curated THEN "text_mining"
        ELSE IF has_text_mined THEN "curated"
        ELSE "unknown"

\* paper_source of a hit
PaperSource(total_curated_papers, paper_snippets) ==
    LET has_curated == total_curated_papers > 0
        has_text_mined == Len(paper_snippets) > 0
    IN  IF has_curated /\ has_text_mined THEN "both"
        ELSE IF has_curated THEN "curated"
        ELSE IF has_text_mined THEN "text_mining"
        ELSE "unknown"

\* the characters of the words that identifiers are read from
TokChars(tok) ==
    CASE tok = "P0AEZ3" -> <<"P", "0", "A", "E", "Z", "3">>
      [] tok = "A0KK56" -> <<"A", "0", "K", "K", "5", "6">>
      [] tok = "MIND_ECOLI" -> <<"M", "I", "N", "D", "_", "E", "C", "O", "L", "I">>
      [] tok = "minD" -> <<"m", "i", "n", "D">>
      [] tok = "b1175" -> <<"b", "1", "1", "7", "5">>
      [] tok = "MIN" -> <<"M", "I", "N">>
      [] OTHER -> <<tok>>

UpperLetters ==
    {"A", "B", "C", "D", "E", "F", "G", "H", "I", "J", "K", "L", "M",
     "N", "O", "P", "Q", "R", "S", "T", "U", "V", "W", "X", "Y", "Z"}

LowerLetters ==
    {"a", "b", "c", "d", "e", "f", "g", "h", "i", "j", "k", "l", "m",
     "n", "o", "p", "q", "r", "s", "t", "u", "v", "w", "x", "y", "z"}

Digits == {"0", "1", "2", "3", "4", "5", "6", "7", "8", "9"}

\* re.match(r"^[A-Z0-9]{4,10}$", s)
MatchesAccession(s) ==
    /\ Len(s) >= 4 /\ Len(s) <= 10
    /\ \A k \in 1..Len(s) : s[k] \in UpperLetters \cup Digits

\* re.match(r"^[A-Z][A-Z0-9]{4,9}$", s)
MatchesUniProt(s) ==
    /\ Len(s) >= 5 /\ Len(s) <= 10
    /\ s[1] \in UpperLetters
    /\ \A k \in 2..Len(s) : s[k] \in UpperLetters \cup Digits

\* "SwissProt" in db, for the title attributes of the model
HasSwissProt(db) == db \in {"SwissProt", "SwissProt/TReMBL"}

\* href matches re.compile(r"litSearch\.cgi\?more=")
IsMoreHref(href) ==
    href.path = "litSearch.cgi" /\ href.query # <<>> /\ href.query[1][1] = "more"

\* the longest prefix of value matched by [^&"'>\s]+
RECURSIVE MoreRun(_)
MoreRun(value) ==
    IF value = <<>> \/ Head(value) \in {"&", "\"", "'", ">", " "} THEN <<>>
    ELSE <<Head(value)>> \o MoreRun(Tail(value))

\* re.search(r"more=([^&\"\'>\s]+)", href): the group, <<>> without a match
MoreValue(href) ==
    LET found == {i \in 1..Len(href.query) :
                     href.query[i][1] = "more" /\ MoreRun(href.query[i][2]) # <<>>}
    IN  IF found = {} THEN <<>>
        ELSE MoreRun(href.query[CHOOSE i \in found : \A j \in found : i <= j][2])

\* the detail id of the first target whose first "more=" link yields one
RECURSIVE MoreDetailId(_)
MoreDetailId(search_targets) ==
    IF search_targets = <<>> THEN <<>>
    ELSE LET links == SelectSeq(Elements(Head(search_targets)),
                          LAMBDA el : el.tag = "a" /\ IsMoreHref(el.href))
         IN  IF links # <<>> /\ MoreValue(links[1].href) # <<>>
             THEN MoreValue(links[1].href)
             ELSE MoreDetailId(Tail(search_targets))

\* the accession read from the name of one SwissProt gene entry, <<>> if
\* the name has neither of the two formats
EntryAccession(ge) ==
    LET n == Len(ge.name)
        slashes == {i \in 2..(n - 1) : ge.name[i] = "/"}
    IN  IF ~HasSwissProt(ge.db) THEN <<>>
        ELSE IF slashes # {}
        THEN IF slashes = {n - 1} /\ MatchesAccession(TokChars(ge.name[n]))
             THEN TokChars(ge.name[n])
             ELSE <<>>
        ELSE IF n = 1 /\ MatchesUniProt(TokChars(ge.name[1]))
        THEN TokChars(ge.name[1])
        ELSE <<>>

\* the fallback of detail_id: the first gene entry that yields an accession
RECURSIVE FallbackDetailId(_)
FallbackDetailId(gene_entries) ==
    IF gene_entries = <<>> THEN <<>>
    ELSE IF EntryAccession(Head(gene_entries)) # <<>>
    THEN EntryAccession(Head(gene_entries))
    ELSE FallbackDetailId(Tail(gene_entries))

\* mutation: the gene entries are asked before the "more=" links
DetailIdEntriesFirst(search_targets, gene_entries) ==
    IF FallbackDetailId(gene_entries) # <<>>
    THEN FallbackDetailId(gene_entries)
    ELSE MoreDetailId(search_targets)

\* detail_id of a hit
DetailId(search_targets, gene_entries) ==
    IF MoreDetailId(search_targets) # <<>>
    THEN MoreDetailId(search_targets)
    ELSE FallbackDetailId(gene_entries)

\* style matches re.compile(r"font-(?:family|size).*smaller|smaller.*font", re.I),
\* for the inline styles of the model
IsSmallerStyle(style) ==
    style \in {"font-family: sans-serif; font-size: smaller;", "font-size: smaller;"}

\* a word that is digits followed by "%"
IsPercent(tok) == tok \in {"98%", "100%", "45%"}

\* re.search(r"(\d+)%\s*" + word, text): the group with its "%", <<>> without
\* a match; the words that start with "identity" or "coverage" are those of
\* the model
PercentBefore(text, word) ==
    LET starts == IF word = "identity" THEN {"identity", "identity,"}
                  ELSE {"coverage", "coverage,"}
        found == {i \in 1..(Len(text) - 1) : IsPercent(text[i]) /\ text[i + 1] \in starts}
    IN  IF found = {} THEN <<>>
        ELSE <<text[CHOOSE i \in found : \A j \in found : i <= j]>>

\* mutation: a percentage is read only from a link that states both
IdentityFieldBothOrNone(block, word) ==
    LET links == SelectSeq(Elements(block),
                     LAMBDA el : el.tag = "a" /\ IsSmallerStyle(el.style))
    IN  IF links = <<>> THEN <<>>
        ELSE IF PercentBefore(links[1].text, "identity") = <<>>
                \/ PercentBefore(links[1].text, "coverage") = <<>>
        THEN <<>>
        ELSE PercentBefore(links[1].text, word)

\* identity or coverage of a hit: read from the first anchor of the block
\* with a "smaller" font style
IdentityField(block, word) ==
    LET links == SelectSeq(Elements(block),
                     LAMBDA el : el.tag = "a" /\ IsSmallerStyle(el.style))
    IN  IF links = <<>> THEN <<>> ELSE PercentBefore(links[1].text, word)

\* li.find("b", string=re.compile("^" + label, re.I))
HasLabel(li, label) ==
    \E k \in 1..Len(li.kids) :
        /\ li.kids[k].tag = "b"
        /\ li.kids[k].text # <<>>
        /\ LowerWord(li.kids[k].text[1]) = label

\* _clean_text(li)
LiText(li) == Flatten([k \in 1..Len(li.kids) |-> li.kids[k].text])

\* re.sub("^" + label + r"\s*", "", text, flags=re.I)
DropLabel(text, label) ==
    IF text # <<>> /\ LowerWord(text[1]) = label THEN Tail(text) ELSE text

\* re.split(r"\bsubunit:", text, flags=re.I)[0].strip()
BeforeSubunit(text) ==
    LET cuts == {i \in 1..Len(text) : LowerWord(text[i]) = "subunit:"}
    IN  IF cuts = {} THEN text
        ELSE SubSeq(text, 1, (CHOOSE i \in cuts : \A j \in cuts : i <= j) - 1)

\* mutation: every labelled item sets its field, the last one winning
RECURSIVE AnnotationsLastWins(_, _, _)
AnnotationsLastWins(lis, function_text, subunit_text) ==
    IF lis = <<>> THEN [function |-> function_text, subunit |-> subunit_text]
    ELSE LET li == Head(lis)
         IN  IF HasLabel(li, "function:")
             THEN AnnotationsLastWins(Tail(lis),
                                      BeforeSubunit(DropLabel(LiText(li), "function:")),
                                      subunit_text)
             ELSE IF HasLabel(li, "subunit:")
             THEN AnnotationsLastWins(Tail(lis), function_text,
                                      DropLabel(LiText(li), "subunit:"))
             ELSE AnnotationsLastWins(Tail(lis), function_text, subunit_text)

\* the loop over all_lis: function and subunit are set once each
RECURSIVE Annotations(_, _, _)
Annotations(lis, function_text, subunit_text) ==
    IF lis = <<>> THEN [function |-> function_text, subunit |-> subunit_text]
    ELSE LET li == Head(lis)
         IN  IF HasLabel(li, "function:") /\ function_text = <<>>
             THEN Annotations(Tail(lis),
                              BeforeSubunit(DropLabel(LiText(li), "function:")),
                              subunit_text)
             ELSE IF HasLabel(li, "subunit:") /\ subunit_text = <<>>
             THEN Annotations(Tail(lis), function_text,
                              DropLabel(LiText(li), "subunit:"))
             ELSE Annotations(Tail(lis), function_text, subunit_text)

\* _clean_text(el) of an inline element
ElText(el) == el.text \o Flatten([k \in 1..Len(el.inner) |-> el.inner[k].text])

\* isinstance(sib, Tag): strings between the elements are no tags
IsTag(el) == el.tag # "#text"

\* el with its following siblings (el.next_sibling onwards)
Placed(els, k, tail) == [el |-> els[k], after |-> SubSeq(els, k + 1, Len(els)) \o tail]

\* the elements of a sequence of siblings and their children, each with its
\* following siblings; tail is what follows the sequence itself
PlacedIn(els, tail) ==
    Flatten([k \in 1..Len(els) |->
               <<Placed(els, k, tail)>>
               \o [j \in 1..Len(els[k].inner) |-> Placed(els[k].inner, j, <<>>)]])

\* the <ul> that holds the items written inside a block, as the sibling that
\* follows the block's inline elements
ItemsUl(block) ==
    IF block.items = <<>> THEN <<>>
    ELSE <<WithInner(El("ul", <<>>, <<>>),
                     Flatten([i \in 1..Len(block.items) |-> block.items[i].kids]))>>

\* block.find_all("a", attrs={"onmousedown": re.compile(r"curated::")}), each
\* anchor with its following siblings
EntryAnchors(block) ==
    SelectSeq(PlacedIn(block.kids, ItemsUl(block))
              \o Flatten([i \in 1..Len(block.items) |-> PlacedIn(block.items[i].kids, <<>>)]),
              LAMBDA r : r.el.tag = "a" /\ HasMarker(r.el, "curated"))

\* entry_desc: the first <b> among the following siblings, the walk ending
\* at a <br>, <a>, <ul> or <p>
RECURSIVE EntryDesc(_)
EntryDesc(sibs) ==
    IF sibs = <<>> THEN <<>>
    ELSE LET sib == Head(sibs)
         IN  IF ~IsTag(sib) THEN EntryDesc(Tail(sibs))
             ELSE IF sib.tag = "b" THEN ElText(sib)
             ELSE IF sib.tag \in {"br", "a", "ul", "p"} THEN <<>>
             ELSE EntryDesc(Tail(sibs))

\* sib.find("i"): the <i> elements below a sibling
InnerItalics(sib) == SelectSeq(sib.inner, LAMBDA el : el.tag = "i")

\* entry_org: the first <i> among the following siblings or below one of
\* them, the walk ending at a <br> or <p>
RECURSIVE EntryOrg(_)
EntryOrg(sibs) ==
    IF sibs = <<>> THEN <<>>
    ELSE LET sib == Head(sibs)
         IN  IF ~IsTag(sib) THEN EntryOrg(Tail(sibs))
             ELSE IF sib.tag = "i" THEN ElText(sib)
             ELSE IF sib.tag \in {"br", "p"} THEN <<>>
             ELSE IF InnerItalics(sib) # <<>> THEN ElText(InnerItalics(sib)[1])
             ELSE EntryOrg(Tail(sibs))

\* the fields _parse_hit_block accumulates before it decides what to return
HitFields(block, trailing_uls) ==
    LET curated == EntryAnchors(block)
        counted == FindAllAnchors(block, "curatedpaper")
        search_targets == trailing_uls \o <<block>>
        pbs == Flatten([i \in 1..Len(search_targets) |->
                           FindAllAnchors(search_targets[i], "pb")])
        gene_entries == [i \in 1..Len(curated) |->
                            [name |-> ElText(curated[i].el),
                             db |-> curated[i].el.title,
                             description |-> EntryDesc(curated[i].after),
                             organism |-> EntryOrg(curated[i].after)]]
        total_curated_papers ==
            SumSeq([i \in 1..Len(counted) |-> PaperCountOf(counted[i].text)])
        paper_snippets == Snippets(pbs, <<>>)
        all_lis == Flatten([i \in 1..Len(trailing_uls) |-> trailing_uls[i].items])
                   \o block.items
        annotations == Annotations(all_lis, <<>>, <<>>)
    IN  [gene_entries |-> gene_entries,
         identity |-> IdentityField(block, "identity"),
         coverage |-> IdentityField(block, "coverage"),
         function |-> annotations.function,
         subunit |-> annotations.subunit,
         total_curated_papers |-> total_curated_papers,
         paper_snippets |-> paper_snippets,
         paper_source |-> PaperSource(total_curated_papers, paper_snippets),
         detail_id |-> DetailId(search_targets, gene_entries)]

\* mutation: a block without content is returned like any other
ParseHitBlockKeepAll(block, trailing_uls) == <<HitFields(block, trailing_uls)>>

\* _parse_hit_block(block, trailing_uls): Optional[PaperBlastHit], as the
\* sequence of no hit (None) or one hit
ParseHitBlock(block, trailing_uls) ==
    LET hit == HitFields(block, trailing_uls)
    IN  IF hit.gene_entries = <<>> /\ hit.paper_snippets = <<>>
        THEN <<>>
        ELSE <<hit>>

-----------------------------------------------------------------------------
(* Bounded inputs of _parse_hit_block.                                     *)

MaxKids == 2
MaxUls == 1

GeneA == El("a", <<"curated", "MIND_ECOLI">>, <<"MIND_ECOLI", "/", "P0AEZ3">>)
GeneB == El("a", <<"curated", "b1175">>, <<"minD">>)
Papers2 == El("a", <<"curatedpaper", "MIND_ECOLI">>, <<"2", "papers">>)
Paper1 == El("a", <<"curatedpaper", "b1175">>, <<"paper">>)
Papers0 == El("a", <<"curatedpaper", "b1175">>, <<"0", "papers">>)
PapersWord == El("a", <<"curatedpaper", "b1175">>, <<"3", "Papers">>)
MoreLink == El("a", <<"curatedpaper", "b1175">>, <<"more">>)
SnipA == El("a", <<"pb", "minD">>, <<"Title", "A">>)
SnipB == El("a", <<"pb", "minD">>, <<"Title", "B">>)
SnipNoTitle == El("a", <<"pb", "minD">>, <<>>)
PlainLink == El("a", <<>>, <<"alignment">>)
BoldText == El("b", <<>>, <<"septum", "site">>)

GeneSwissProt == WithTitle(GeneA, "SwissProt")
GeneAccession == WithTitle(El("a", <<"curated", "A0KK56">>, <<"A0KK56">>), "SwissProt")
GeneShort == WithTitle(El("a", <<"curated", "MIN">>, <<"minD", "/", "MIN">>), "SwissProt")

DetailLink(value) ==
    WithHref(El("a", <<>>, <<"More">>), Href("litSearch.cgi", <<<<"more", value>>>>))

DetailAccession == DetailLink(<<"Q", "0", "1", "4">>)
DetailComposite == DetailLink(<<"S", "P", ":", ":", "Q", "0", "1", "4">>)
DetailLocusTag == DetailLink(TokChars("b1175"))
DetailEmpty == DetailLink(<<>>)

BlockElems ==
    {GeneA, GeneB, Papers2, Paper1, Papers0, PapersWord, MoreLink, SnipA,
     SnipNoTitle, PlainLink, BoldText, GeneSwissProt, GeneAccession, GeneShort,
     DetailAccession, DetailComposite, DetailLocusTag, DetailEmpty}

RECURSIVE SeqsUpTo(_, _)
SeqsUpTo(S, n) ==
    IF n = 0 THEN {<<>>}
    ELSE LET shorter == SeqsUpTo(S, n - 1)
         IN  shorter \cup {Append(s, x) : s \in shorter, x \in S}

HitP(kids) == Node("p", TRUE, kids, <<>>)

Ul(items) == Node("ul", FALSE, <<>>, items)

TrailingUlPool ==
    { Ul(<<Li(<<SnipA>>)>>),
      Ul(<<Li(<<SnipA>>), Li(<<SnipB, SnipA>>)>>),
      Ul(<<Li(<<SnipNoTitle>>)>>),
      Ul(<<Li(<<BoldText>>), Li(<<Papers2>>)>>),
      Ul(<<Li(<<SnipA, DetailAccession>>)>>) }

HitBlockInit ==
    /\ pc = "idle"
    /\ tool = "_parse_hit_block"
    /\ params \in {[block |-> HitP(k), trailing_uls |-> t] :
                       k \in SeqsUpTo(BlockElems, MaxKids),
                       t \in SeqsUpTo(TrailingUlPool, MaxUls)}
    /\ requests = <<>>
    /\ soup = <<>>
    /\ organisms = <<>>
    /\ result = <<>>

CallParseHitBlock ==
    /\ pc = "idle"
    /\ tool = "_parse_hit_block"
    /\ result' = ParseHitBlock(params.block, params.trailing_uls)
    /\ pc' = "done"
    /\ UNCHANGED <<tool, params, requests, soup, organisms>>

HitBlockNext == CallParseHitBlock

SpecHitBlock == HitBlockInit /\ [][HitBlockNext]_vars

\* C4: the paper_source of every hit _parse_hit_block returns is fixed by
\* total_curated_papers and the number of paper_snippets: "curated" iff
\* count > 0 and no snippets, "text_mining" iff snippets and count = 0,
\* "both" iff count > 0 and snippets, "unknown" iff neither.
C4_PaperSourceByCounts ==
    (pc = "done" /\ tool = "_parse_hit_block" /\ result # <<>>)
    => LET hit == result[1]
           n == hit.total_curated_papers
           k == Len(hit.paper_snippets)
       IN  /\ hit.paper_source \in {"curated", "text_mining", "both", "unknown"}
           /\ hit.paper_source = "curated" <=> (n > 0 /\ k = 0)
           /\ hit.paper_source = "text_mining" <=> (k > 0 /\ n = 0)
           /\ hit.paper_source = "both" <=> (n > 0 /\ k > 0)
           /\ hit.paper_source = "unknown" <=> (n = 0 /\ k = 0)

\* C4 witness: a hit with a curated gene entry, a positive paper count and no
\* snippet, classified "curated".
C4_Witness ==
    /\ pc = "done" /\ tool = "_parse_hit_block" /\ result # <<>>
    /\ result[1].gene_entries # <<>>
    /\ result[1].total_curated_papers = 2
    /\ result[1].paper_snippets = <<>>
    /\ result[1].paper_source = "curated"

-----------------------------------------------------------------------------
(* _parse_litsearch_results                                                *)

\* an entry of a warnings list: a text copied from the page ("page"), the
\* truncation notice of paperblast_search ("truncated", with the two numbers
\* it quotes), or one of the fixed messages of the other handlers
Warning(kind, text, top, of) ==
    [kind |-> kind, text |-> text, top |-> top, of |-> of]

RECURSIVE Ascending(_)
Ascending(S) ==
    IF S = {} THEN <<>>
    ELSE LET m == CHOOSE x \in S : \A y \in S : x <= y
         IN  <<m>> \o Ascending(S \ {m})

IsP(node) == node.tag = "p"

\* soup.find_all("p", style=re.compile(r"margin-top:\s*1em"))
IsHitBlock(node) == node.tag = "p" /\ node.hit

\* the positions of the hit blocks of a document
HitBlocks(doc) == {i \in 1..Len(doc) : IsHitBlock(doc[i])}

\* mutation: the walk goes on past a <p> that is not a hit block
TrailingUlsToNextHit(doc, i) ==
    LET later == {j \in (i + 1)..Len(doc) : IsHitBlock(doc[j])}
        stop == IF later = {} THEN Len(doc) + 1
                ELSE CHOOSE j \in later : \A k \in later : j <= k
    IN  SelectSeq(SubSeq(doc, i + 1, stop - 1), LAMBDA n : n.tag = "ul")

\* the <ul> siblings that follow the block at position i, up to the next <p>
TrailingUls(doc, i) ==
    LET later == {j \in (i + 1)..Len(doc) : IsP(doc[j])}
        stop == IF later = {} THEN Len(doc) + 1
                ELSE CHOOSE j \in later : \A k \in later : j <= k
    IN  SelectSeq(SubSeq(doc, i + 1, stop - 1), LAMBDA n : n.tag = "ul")

\* query_info of _parse_litsearch_results: the first <h3>, cleaned
QueryInfo(doc) ==
    LET h3 == {i \in 1..Len(doc) : doc[i].tag = "h3"}
    IN  IF h3 = {} THEN <<>>
        ELSE CleanText(doc[CHOOSE i \in h3 : \A j \in h3 : i <= j])

\* total_found of _parse_litsearch_results: the number of the first <p>
\* that states one, else 0
TotalFound(doc) ==
    LET found == {i \in 1..Len(doc) :
                     IsP(doc[i]) /\ FoundCount(CleanText(doc[i])) >= 0}
    IN  IF found = {} THEN 0
        ELSE FoundCount(CleanText(doc[CHOOSE i \in found : \A j \in found : i <= j]))

\* warnings of _parse_litsearch_results: the texts of the <p> that apologise
PageWarnings(doc) ==
    LET warned == Ascending({i \in 1..Len(doc) :
                      IsP(doc[i]) /\ IsWarningText(CleanText(doc[i]))})
    IN  [k \in 1..Len(warned) |-> Warning("page", CleanText(doc[warned[k]]), 0, 0)]

\* mutation: each hit is put in front of those before it
ParseLitsearchResultsReversed(doc) ==
    LET hit_blocks == Ascending(HitBlocks(doc))
        n == Len(hit_blocks)
    IN  [query_info |-> QueryInfo(doc),
         total_found |-> TotalFound(doc),
         hits |-> Flatten([k \in 1..n |->
                     ParseHitBlock(doc[hit_blocks[n + 1 - k]],
                                   TrailingUls(doc, hit_blocks[n + 1 - k]))]),
         warnings |-> PageWarnings(doc)]

\* _parse_litsearch_results(soup)
ParseLitsearchResults(doc) ==
    LET hit_blocks == Ascending(HitBlocks(doc))
    IN  [query_info |-> QueryInfo(doc),
         total_found |-> TotalFound(doc),
         hits |-> Flatten([k \in 1..Len(hit_blocks) |->
                     ParseHitBlock(doc[hit_blocks[k]], TrailingUls(doc, hit_blocks[k]))]),
         warnings |-> PageWarnings(doc)]

-----------------------------------------------------------------------------
(* The retrieval collaborator _get and the handlers' error path.           *)

\* a request: the CGI endpoint and the query parameters, in the order the
\* handler puts them into the dictionary
Request(endpoint, query_params) == [endpoint |-> endpoint, params |-> query_params]

\* the exceptions _get raises
Failures == {"timeout", "connect", "http404", "http500", "http503"}

\* _handle_error(e)
HandleError(e) ==
    CASE e = "http404" -> "Error: Endpoint not found. The PaperBLAST server may be down."
      [] e = "http500" -> "Error: PaperBLAST server error. The query may be malformed or the server is overloaded."
      [] e = "http503" -> "Error: HTTP 503 from PaperBLAST server."
      [] e = "timeout" -> "Error: Request timed out. BLAST searches on long sequences can take >30s. Try a shorter sequence or an identifier."
      [] OTHER -> "Error: ConnectError"

ErrorResult(e) == [kind |-> "Error", message |-> HandleError(e)]

NoResult == [kind |-> "none"]

-----------------------------------------------------------------------------
(* paperblast_search                                                       *)

\* hits[:n] of Python, n negative included
SliceTo(seq, n) ==
    IF n >= 0
    THEN SubSeq(seq, 1, IF n < Len(seq) THEN n ELSE Len(seq))
    ELSE SubSeq(seq, 1, Len(seq) + n)

\* mutation: truncation decided by the page's count instead of the parsed hits
PaperblastSearchByTotal(p, doc) ==
    LET results == ParseLitsearchResults(doc)
        truncate == p.max_hits >= 0 /\ results.total_found > p.max_hits
    IN  [kind |-> "PaperBlastResults",
         query_info |-> results.query_info,
         total_found |-> results.total_found,
         hits |-> IF truncate THEN SliceTo(results.hits, p.max_hits) ELSE results.hits,
         search_url |-> Request("litSearch.cgi", <<<<"query", p.query>>>>),
         warnings |-> IF truncate
                      THEN Append(results.warnings,
                               Warning("truncated", <<>>, p.max_hits, results.total_found))
                      ELSE results.warnings]

\* mutation: the -1 sentinel is not exempted from truncation
PaperblastSearchNoSentinel(p, doc) ==
    LET results == ParseLitsearchResults(doc)
        truncate == Len(results.hits) > p.max_hits
    IN  [kind |-> "PaperBlastResults",
         query_info |-> results.query_info,
         total_found |-> results.total_found,
         hits |-> IF truncate THEN SliceTo(results.hits, p.max_hits) ELSE results.hits,
         search_url |-> Request("litSearch.cgi", <<<<"query", p.query>>>>),
         warnings |-> IF truncate
                      THEN Append(results.warnings,
                               Warning("truncated", <<>>, p.max_hits, results.total_found))
                      ELSE results.warnings]

\* mutation: total_found recomputed from the emitted list
PaperblastSearchRecount(p, doc) ==
    LET results == ParseLitsearchResults(doc)
        truncate == p.max_hits >= 0 /\ Len(results.hits) > p.max_hits
        hits == IF truncate THEN SliceTo(results.hits, p.max_hits) ELSE results.hits
    IN  [kind |-> "PaperBlastResults",
         query_info |-> results.query_info,
         total_found |-> Len(hits),
         hits |-> hits,
         search_url |-> Request("litSearch.cgi", <<<<"query", p.query>>>>),
         warnings |-> IF truncate
                      THEN Append(results.warnings,
                               Warning("truncated", <<>>, p.max_hits, results.total_found))
                      ELSE results.warnings]

\* paperblast_search, from the parse of the response to the envelope
PaperblastSearch(p, doc) ==
    LET results == ParseLitsearchResults(doc)
        truncate == p.max_hits >= 0 /\ Len(results.hits) > p.max_hits
    IN  [kind |-> "PaperBlastResults",
         query_info |-> results.query_info,
         total_found |-> results.total_found,
         hits |-> IF truncate THEN SliceTo(results.hits, p.max_hits) ELSE results.hits,
         search_url |-> Request("litSearch.cgi", <<<<"query", p.query>>>>),
         warnings |-> IF truncate
                      THEN Append(results.warnings,
                               Warning("truncated", <<>>, p.max_hits, results.total_found))
                      ELSE results.warnings]

\* Bounded inputs of paperblast_search.
MaxNodes == 3
MaxHitsParam == 2

TextNode(text) == El("#text", <<>>, text)

HeaderH3 == Node("h3", FALSE, <<TextNode(<<"PaperBLAST", "Hits", "for", "P0AEZ3">>)>>, <<>>)
FoundP == Node("p", FALSE, <<TextNode(<<"Found", "2", "similar", "proteins">>)>>, <<>>)
SorryP == Node("p", FALSE, <<TextNode(<<"Sorry", "no", "hits">>)>>, <<>>)
HitCurated == HitP(<<GeneA, Papers2>>)
HitGene == HitP(<<GeneB>>)
HitBare == HitP(<<PlainLink>>)
UlSnip == Ul(<<Li(<<SnipA>>)>>)

IdentityLink ==
    WithStyle(El("a", <<>>, <<"98%", "identity,", "100%", "coverage">>),
              "font-family: sans-serif; font-size: smaller;")

HitAligned == HitP(<<GeneSwissProt, IdentityLink>>)

UlFunction ==
    Ul(<<Li(<<El("b", <<>>, <<"function:">>), TextNode(<<"septum", "site">>),
             El("b", <<>>, <<"subunit:">>), TextNode(<<"homodimer">>)>>),
         Li(<<El("b", <<>>, <<"Subunit:">>), TextNode(<<"binds", "MinC">>)>>)>>)

SearchNodes ==
    {HeaderH3, FoundP, SorryP, HitCurated, HitGene, HitBare, UlSnip, HitAligned,
     UlFunction}

SearchDocs == SeqsUpTo(SearchNodes, MaxNodes)

SearchQueries == {"P0AEZ3"}

SearchInit ==
    /\ pc = "idle"
    /\ tool = "none"
    /\ params = [query |-> "", max_hits |-> 0]
    /\ requests = <<>>
    /\ soup = <<>>
    /\ organisms = <<>>
    /\ result = NoResult

\* paperblast_search up to the awaited _get
InvokePaperblastSearch ==
    /\ pc = "idle"
    /\ \E q \in SearchQueries, mh \in (-1)..MaxHitsParam :
            /\ tool' = "paperblast_search"
            /\ params' = [query |-> q, max_hits |-> mh]
            /\ requests' = Append(requests, Request("litSearch.cgi", <<<<"query", q>>>>))
            /\ pc' = "await"
            /\ UNCHANGED <<soup, organisms, result>>

\* _get returns the parsed page: the rest of paperblast_search
RespondPaperblastSearch ==
    /\ pc = "await"
    /\ tool = "paperblast_search"
    /\ \E doc \in SearchDocs :
            /\ soup' = doc
            /\ result' = PaperblastSearch(params, doc)
            /\ pc' = "done"
            /\ UNCHANGED <<tool, params, requests, organisms>>

\* _get raises: the except branch of the handler
FailPaperblastSearch ==
    /\ pc = "await"
    /\ tool = "paperblast_search"
    /\ \E e \in Failures :
            /\ result' = ErrorResult(e)
            /\ pc' = "done"
            /\ UNCHANGED <<tool, params, requests, soup, organisms>>

SearchNext ==
    \/ InvokePaperblastSearch
    \/ RespondPaperblastSearch
    \/ FailPaperblastSearch

SpecSearch == SearchInit /\ [][SearchNext]_vars

\* the invocation of paperblast_search returned an envelope
SearchReturned ==
    pc = "done" /\ tool = "paperblast_search" /\ result.kind = "PaperBlastResults"

\* the warnings list holds a truncation notice
HasTruncationWarning(warnings) ==
    \E k \in 1..Len(warnings) : warnings[k].kind = "truncated"

\* the hit anchors of a document whose block holds a gene entry or a snippet
KeptAnchors(doc) ==
    {i \in 1..Len(doc) :
        /\ IsHitBlock(doc[i])
        /\ LET hit == HitFields(doc[i], TrailingUls(doc, i))
           IN  hit.gene_entries # <<>> \/ hit.paper_snippets # <<>>}

\* C1 as stated: for max_hits >= 0, if the total found count of the page
\* exceeds max_hits, the emitted hits list has length exactly max_hits and the
\* warnings hold a truncation warning.
C1_TruncatesWhenTotalExceeds ==
    (SearchReturned /\ params.max_hits >= 0
       /\ TotalFound(soup) > params.max_hits)
    => /\ Len(result.hits) = params.max_hits
       /\ HasTruncationWarning(result.warnings)

\* C1 as amended: for max_hits >= 0, if the number of hit blocks parsed from
\* the page (those holding a gene entry or a snippet) exceeds max_hits, the
\* emitted hits list has length exactly max_hits and the warnings hold a
\* truncation warning.
C1_TruncatesWhenParsedExceeds ==
    (SearchReturned /\ params.max_hits >= 0
       /\ Cardinality(KeptAnchors(soup)) > params.max_hits)
    => /\ Len(result.hits) = params.max_hits
       /\ HasTruncationWarning(result.warnings)

\* C1 witness: two parsed hit blocks, max_hits = 1, one hit emitted with the
\* truncation warning.
C1_Witness ==
    /\ SearchReturned
    /\ params.max_hits = 1
    /\ Cardinality(KeptAnchors(soup)) = 2
    /\ Len(result.hits) = 1
    /\ HasTruncationWarning(result.warnings)

\* C2 as stated: with max_hits = -1 the emitted hits list has length equal to
\* total_found and no truncation warning is added.
C2_UnboundedLengthIsTotalFound ==
    (SearchReturned /\ params.max_hits = -1)
    => /\ Len(result.hits) = result.total_found
       /\ ~HasTruncationWarning(result.warnings)

\* C2 as amended: with max_hits = -1 the emitted hits list is the whole list
\* parsed from the document (one hit per hit block holding a gene entry or a
\* snippet, whatever count the page states) and the warnings are those of
\* the parse, with no truncation warning added.
C2_UnboundedEmitsAllParsed ==
    (SearchReturned /\ params.max_hits = -1)
    => /\ Len(result.hits) = Cardinality(KeptAnchors(soup))
       /\ result.hits = ParseLitsearchResults(soup).hits
       /\ result.warnings = ParseLitsearchResults(soup).warnings
       /\ ~HasTruncationWarning(result.warnings)

\* C2 witness: max_hits = -1 on a page with three parsed hit blocks, all
\* three emitted.
C2_Witness ==
    /\ SearchReturned
    /\ params.max_hits = -1
    /\ Cardinality(KeptAnchors(soup)) = 3
    /\ Len(result.hits) = 3
    /\ result.warnings = <<>>

\* C3: truncation changes only hits, to a prefix of the parsed list, and
\* appends to warnings: total_found and query_info of the envelope are the
\* values parsed from the document for every max_hits.
C3_TruncationFrame ==
    SearchReturned
    => LET parsed == ParseLitsearchResults(soup)
       IN  /\ result.total_found = TotalFound(soup)
           /\ result.query_info = QueryInfo(soup)
           /\ Len(result.hits) <= Len(parsed.hits)
           /\ result.hits = SubSeq(parsed.hits, 1, Len(result.hits))
           /\ Len(parsed.warnings) <= Len(result.warnings)
           /\ parsed.warnings = SubSeq(result.warnings, 1, Len(parsed.warnings))

\* C3 witness: a truncated envelope (one hit of two) that still carries the
\* page's count of 2 and the page's header.
C3_Witness ==
    /\ SearchReturned
    /\ HasTruncationWarning(result.warnings)
    /\ Len(result.hits) = 1
    /\ Len(ParseLitsearchResults(soup).hits) = 2
    /\ result.total_found = 2

\* C5: every hit of the envelope holds at least one gene entry or at least
\* one paper snippet, and the list holds no more hits than the document has
\* hit anchors with such content (an anchor yielding neither adds nothing).
C5_DropInvariant ==
    SearchReturned
    => /\ \A k \in 1..Len(result.hits) :
              result.hits[k].gene_entries # <<>> \/ result.hits[k].paper_snippets # <<>>
       /\ Len(result.hits) <= Cardinality(KeptAnchors(soup))

\* C5 witness: a document with two hit anchors, one of them without gene
\* entries and snippets, parsed without truncation into one hit.
C5_Witness ==
    /\ SearchReturned
    /\ params.max_hits = -1
    /\ Cardinality(HitBlocks(soup)) = 2
    /\ Cardinality(KeptAnchors(soup)) = 1
    /\ Len(result.hits) = 1

\* C6: the emitted hits are, in order, the hits of the first hit anchors of
\* the document that hold content: the k-th emitted hit is the hit of the
\* k-th such anchor in document order (dropped anchors skipped, a truncated
\* list a prefix).
C6_DocumentOrder ==
    SearchReturned
    => LET kept == Ascending(KeptAnchors(soup))
       IN  /\ Len(result.hits) <= Len(kept)
           /\ \A k \in 1..Len(result.hits) :
                  result.hits[k] = HitFields(soup[kept[k]], TrailingUls(soup, kept[k]))

\* C6 witness: three hit anchors, the middle one dropped, the two others
\* with different content and emitted in document order.
C6_Witness ==
    /\ SearchReturned
    /\ HitBlocks(soup) = {1, 2, 3}
    /\ KeptAnchors(soup) = {1, 3}
    /\ Len(result.hits) = 2
    /\ result.hits[1] = HitFields(soup[1], <<>>)
    /\ result.hits[2] = HitFields(soup[3], <<>>)
    /\ result.hits[1] # result.hits[2]

-----------------------------------------------------------------------------
(* paperblast_gene_papers                                                  *)

SlashSep == <<" ", "/", " ">>
ColonSep == <<":", ":">>

\* mutation: the first piece of the split is kept instead of the last
NormalizeGeneIdFirstPiece(gene_id) ==
    LET g0 == Strip(gene_id)
        i == CHOOSE j \in 1..Len(g0) :
                 OccursAt(g0, SlashSep, j) /\ \A k \in 1..(j - 1) : ~OccursAt(g0, SlashSep, k)
        g1 == IF Contains(g0, SlashSep) THEN Strip(SubSeq(g0, 1, i - 1)) ELSE g0
    IN  IF Contains(g1, ColonSep) THEN Strip(SplitLast(g1, ColonSep)) ELSE g1

\* the clean-up of the identifier at the head of paperblast_gene_papers
NormalizeGeneId(gene_id) ==
    LET g0 == Strip(gene_id)
        g1 == IF Contains(g0, SlashSep) THEN Strip(SplitLast(g0, SlashSep)) ELSE g0
    IN  IF Contains(g1, ColonSep) THEN Strip(SplitLast(g1, ColonSep)) ELSE g1

\* mutation: the warning follows the recomputed total alone
GenePapersWarnOnZeroTotal(p, doc) ==
    LET gene_id == NormalizeGeneId(p.gene_id)
        pb_results == ParseLitsearchResults(doc)
        summed == SumSeq([k \in 1..Len(pb_results.hits) |->
                      pb_results.hits[k].total_curated_papers
                      + Len(pb_results.hits[k].paper_snippets)])
        total_found == IF pb_results.total_found = 0 /\ pb_results.hits # <<>>
                       THEN summed
                       ELSE pb_results.total_found
    IN  [kind |-> "GenePapersResults",
         gene_id |-> gene_id,
         total_found |-> total_found,
         hits |-> pb_results.hits,
         detail_url |-> Request("litSearch.cgi", <<<<"more", gene_id>>>>),
         warnings |-> IF total_found = 0
                      THEN Append(pb_results.warnings, Warning("no_papers", gene_id, 0, 0))
                      ELSE pb_results.warnings]

\* paperblast_gene_papers, from the parse of the response to the envelope
GenePapers(p, doc) ==
    LET gene_id == NormalizeGeneId(p.gene_id)
        pb_results == ParseLitsearchResults(doc)
        summed == SumSeq([k \in 1..Len(pb_results.hits) |->
                      pb_results.hits[k].total_curated_papers
                      + Len(pb_results.hits[k].paper_snippets)])
        total_found == IF pb_results.total_found = 0 /\ pb_results.hits # <<>>
                       THEN summed
                       ELSE pb_results.total_found
    IN  [kind |-> "GenePapersResults",
         gene_id |-> gene_id,
         total_found |-> total_found,
         hits |-> pb_results.hits,
         detail_url |-> Request("litSearch.cgi", <<<<"more", gene_id>>>>),
         warnings |-> IF total_found = 0 /\ pb_results.hits = <<>>
                      THEN Append(pb_results.warnings, Warning("no_papers", gene_id, 0, 0))
                      ELSE pb_results.warnings]

\* Bounded inputs of paperblast_gene_papers.
MaxGeneIdLen == 6
MinGeneIdLen == 2

GeneIdChars == {"A", "b", " ", "/", ":"}

\* GeneIdInput.gene_id after validation: whitespace stripped, min_length kept
GeneIdInputs ==
    {s \in StringsUpTo(GeneIdChars, MaxGeneIdLen) :
        Len(s) >= MinGeneIdLen /\ Strip(s) = s}

GeneDocs ==
    { <<>>, <<HitCurated>>, <<FoundP, HitBare, UlSnip>>, <<FoundP, HitBare>>,
      <<HitGene>> }

GenePapersInit ==
    /\ pc = "idle"
    /\ tool = "none"
    /\ params = [gene_id |-> <<>>]
    /\ requests = <<>>
    /\ soup = <<>>
    /\ organisms = <<>>
    /\ result = NoResult

\* paperblast_gene_papers up to the awaited _get
InvokeGenePapers ==
    /\ pc = "idle"
    /\ \E gid \in GeneIdInputs :
            /\ tool' = "paperblast_gene_papers"
            /\ params' = [gene_id |-> gid]
            /\ requests' = Append(requests,
                   Request("litSearch.cgi", <<<<"more", NormalizeGeneId(gid)>>>>))
            /\ pc' = "await"
            /\ UNCHANGED <<soup, organisms, result>>

\* _get returns the parsed page: the rest of paperblast_gene_papers
RespondGenePapers ==
    /\ pc = "await"
    /\ tool = "paperblast_gene_papers"
    /\ \E doc \in GeneDocs :
            /\ soup' = doc
            /\ result' = GenePapers(params, doc)
            /\ pc' = "done"
            /\ UNCHANGED <<tool, params, requests, organisms>>

\* _get raises: the except branch of the handler
FailGenePapers ==
    /\ pc = "await"
    /\ tool = "paperblast_gene_papers"
    /\ \E e \in Failures :
            /\ result' = ErrorResult(e)
            /\ pc' = "done"
            /\ UNCHANGED <<tool, params, requests, soup, organisms>>

GenePapersNext ==
    \/ InvokeGenePapers
    \/ RespondGenePapers
    \/ FailGenePapers

SpecGenePapers == GenePapersInit /\ [][GenePapersNext]_vars

\* an identifier: a non-empty string of letters, without separator or blank
IsIdentifier(s) ==
    s # <<>> /\ \A k \in 1..Len(s) : s[k] \in {"A", "b"}

\* C8: an input "X / Y" or "X::Y", X and Y identifiers, is normalized to Y
\* before the request is issued: the one request of the invocation carries
\* more = Y, which is not the composite that was passed in.
C8_CompositeNormalizedToY ==
    (tool = "paperblast_gene_papers" /\ pc # "idle")
    => \A sep \in {SlashSep, ColonSep} :
           \A i \in 1..Len(params.gene_id) :
               LET X == SubSeq(params.gene_id, 1, i - 1)
                   Y == SubSeq(params.gene_id, i + Len(sep), Len(params.gene_id))
               IN  (OccursAt(params.gene_id, sep, i) /\ IsIdentifier(X) /\ IsIdentifier(Y))
                   => /\ Len(requests) = 1
                      /\ requests[1] = Request("litSearch.cgi", <<<<"more", Y>>>>)
                      /\ Y # params.gene_id

\* C8 witness: the composite "Ab / b" was passed and the request carries "b".
C8_Witness ==
    /\ tool = "paperblast_gene_papers" /\ pc = "done"
    /\ params.gene_id = <<"A", "b", " ", "/", " ", "b">>
    /\ requests = <<Request("litSearch.cgi", <<<<"more", <<"b">>>>>>)>>
    /\ result.kind = "GenePapersResults"
    /\ result.gene_id = <<"b">>

-----------------------------------------------------------------------------
(* Tables of the genomeSearch.cgi and gapView.cgi pages.  A page is its    *)
(* <title> text, whether it holds the <select name="gdb"> of the query     *)
(* form, the text nodes outside tables and its tables; a table is the      *)
(* sequence of its rows; a row carries its bgcolor and style attributes    *)
(* ("" when absent) and its cells; a cell its tag, style, cleaned text     *)
(* and the anchors inside it.                                              *)

Anchor(style, href, text) == [style |-> style, href |-> href, text |-> text]

Cell(tag, style, text, links) ==
    [tag |-> tag, style |-> style, text |-> text, links |-> links]

Row(bgcolor, style, cells) == [bgcolor |-> bgcolor, style |-> style, cells |-> cells]

Page(title, gdb_select, texts, tables) ==
    [title |-> title, gdb_select |-> gdb_select, texts |-> texts, tables |-> tables]

\* href.startswith("/"): the root-relative hrefs of the model
IsRootRelative(href) == href \in {"/cgi-bin/gapView.cgi?path=arg", "/cgi-bin/litSearch.cgi?query=x"}

\* BASE_URL + href
WithBase(href) ==
    CASE href = "/cgi-bin/gapView.cgi?path=arg"
           -> "https://papers.genomics.lbl.gov/cgi-bin/gapView.cgi?path=arg"
      [] href = "/cgi-bin/litSearch.cgi?query=x"
           -> "https://papers.genomics.lbl.gov/cgi-bin/litSearch.cgi?query=x"
      [] OTHER -> href

\* needle in href, for the needles the parsers look for
HrefHas(href, needle) ==
    CASE needle = "gapView" ->
             href \in {"/cgi-bin/gapView.cgi?path=arg",
                       "https://papers.genomics.lbl.gov/cgi-bin/gapView.cgi?path=arg",
                       "gapView.cgi?path=arg"}
      [] needle = "litSearch" ->
             href \in {"/cgi-bin/litSearch.cgi?query=x",
                       "https://papers.genomics.lbl.gov/cgi-bin/litSearch.cgi?query=x"}
      [] needle = "showAlign" -> href = "showAlign.cgi?def1=x"
      [] OTHER -> FALSE

\* the anchors of a row that carry an href attribute ("none": no attribute)
RowLinks(row) ==
    SelectSeq(Flatten([i \in 1..Len(row.cells) |-> row.cells[i].links]),
              LAMBDA a : a.href # "none")

\* _extract_links(row)
ExtractLinks(row) ==
    LET as == RowLinks(row)
    IN  [i \in 1..Len(as) |->
            [text |-> as[i].text,
             href |-> IF IsRootRelative(as[i].href) THEN WithBase(as[i].href)
                      ELSE as[i].href]]

\* needle in style.lower(), for the inline styles and needles of the model
StyleHas(style, needle) ==
    CASE needle = "#007000" -> style \in {"color: #007000; font-weight: bold;", "color: #007000;"}
      [] needle = "bold" -> style \in {"color: #007000; font-weight: bold;",
                                        "color: #000000; font-weight: bold;"}
      [] needle = "00" -> style \in {"color: #007000; font-weight: bold;", "color: #007000;",
                                      "color: #000000; font-weight: bold;", "color: #000000;"}
      [] needle = "#cc4444" -> style = "color: #CC4444;"
      [] needle = "#cc44" -> style = "color: #CC4444;"
      [] needle = "#000000" -> style \in {"color: #000000; font-weight: bold;", "color: #000000;"}
      [] OTHER -> FALSE

\* needle in bgcolor.lower(), for the row colours and needles of the model
BgcolorHas(bgcolor, needle) ==
    CASE needle = "green" -> bgcolor = "lightgreen"
      [] needle = "#90" -> bgcolor = "#90EE90"
      [] needle = "yellow" -> bgcolor = "yellow"
      [] needle = "#ff" -> bgcolor \in {"#FFFF99", "#FFDDDD"}
      [] needle = "red" -> bgcolor = "red"
      [] needle = "#dd" -> bgcolor = "#DD8888"
      [] OTHER -> FALSE

\* the verdict of one styled anchor in _detect_gapmind_confidence, "" if the
\* style decides nothing
AnchorConfidence(style) ==
    IF StyleHas(style, "#007000") \/ (StyleHas(style, "bold") /\ StyleHas(style, "00"))
    THEN "high"
    ELSE IF StyleHas(style, "#cc4444") \/ StyleHas(style, "#cc44") THEN "low"
    ELSE IF StyleHas(style, "#000000") THEN "medium"
    ELSE ""

\* _detect_gapmind_confidence(cell), cell a cell of row
DetectGapmindConfidence(cell, row) ==
    LET styled == SelectSeq(cell.links, LAMBDA a : a.style # "")
        decided == {i \in 1..Len(styled) : AnchorConfidence(styled[i].style) # ""}
    IN  IF decided # {}
        THEN AnchorConfidence(styled[CHOOSE i \in decided : \A j \in decided : i <= j].style)
        ELSE IF BgcolorHas(row.bgcolor, "green") \/ BgcolorHas(row.bgcolor, "#90") THEN "high"
        ELSE IF BgcolorHas(row.bgcolor, "yellow") \/ BgcolorHas(row.bgcolor, "#ff") THEN "medium"
        ELSE IF BgcolorHas(row.bgcolor, "red") \/ BgcolorHas(row.bgcolor, "#dd") THEN "low"
        ELSE "unknown"

\* pw_name.startswith("Pathway")
StartsWithPathway(text) == text # <<>> /\ Head(text) \in {"Pathway", "Pathways"}

\* the pathway _parse_gapmind appends for one row, as no or one element
RowPathway(row) ==
    IF Len(row.cells) >= 2
       /\ row.cells[1].text # <<>>
       /\ ~StartsWithPathway(row.cells[1].text)
    THEN LET raw_links == ExtractLinks(row)
             gap == {i \in 1..Len(raw_links) : HrefHas(raw_links[i].href, "gapView")}
         IN  <<[name |-> row.cells[1].text,
                status |-> row.cells[2].text,
                confidence |-> DetectGapmindConfidence(row.cells[1], row),
                url |-> IF gap = {} THEN ""
                        ELSE raw_links[CHOOSE i \in gap : \A j \in gap : i <= j].href,
                links |-> raw_links]>>
    ELSE <<>>

\* _parse_gapmind(soup)
ParseGapmind(page) ==
    LET rows == Flatten(page.tables)
        pathways == Flatten([i \in 1..Len(rows) |-> RowPathway(rows[i])])
    IN  [organism |-> page.title,
         total_pathways |-> Len(pathways),
         pathways |-> pathways,
         warnings |-> <<>>]

\* _parse_organism_index(soup): the index page as its anchors whose href
\* holds orgId=, each with the identifier matched there (0: none matched)
\* and its cleaned text
ParseOrganismIndex(links) ==
    LET ok == SelectSeq(links, LAMBDA a : a.name # <<>> /\ a.org_id # 0)
    IN  [i \in 1..Len(ok) |-> [org_id |-> ok[i].org_id, name |-> ok[i].name]]

-----------------------------------------------------------------------------
(* gapmind_check                                                           *)

\* organisms[:20]
SuggestCap == 20

IndexRequest(set_val) ==
    Request("gapView.cgi", <<<<"set", set_val>>, <<"orgs", "orgsDef">>>>)

PathwayRequest(set_val, org_id) ==
    Request("gapView.cgi",
            <<<<"set", set_val>>, <<"orgs", "orgsDef">>, <<"orgId", org_id>>>>)

\* the envelope of _parse_gapmind's result for org_id; fuzzy: the warning
\* that the name was not matched exactly, as no or one element
GapmindResults(set_val, org_id, page, fuzzy) ==
    LET results == ParseGapmind(page)
    IN  [kind |-> "GapMindResults",
         organism |-> results.organism,
         org_id |-> org_id,
         analysis_type |-> set_val,
         total_pathways |-> results.total_pathways,
         pathways |-> results.pathways,
         gapmind_url |-> PathwayRequest(set_val, org_id),
         warnings |-> results.warnings \o fuzzy]

OrganismIndex(set_val, total, orgs, warnings) ==
    [kind |-> "GapMindOrganismIndex",
     analysis_type |-> set_val,
     total_organisms |-> total,
     organisms |-> orgs,
     index_url |-> IndexRequest(set_val),
     warnings |-> warnings]

\* mutation: the whole index is returned as the suggestion list
UnmatchedIndexUncapped(p, orgs) ==
    OrganismIndex(p.analysis_type, Len(orgs), orgs,
                  <<Warning("no_match", p.organism, SuggestCap, Len(orgs))>>)

\* gapmind_check, mode 2, no organism matched: the index with suggestions
UnmatchedIndex(p, orgs) ==
    OrganismIndex(p.analysis_type, Len(orgs), SliceTo(orgs, SuggestCap),
                  <<Warning("no_match", p.organism, SuggestCap, Len(orgs))>>)

\* Bounded inputs of gapmind_check.
MaxIndexLinks == 22
MaxOrganismLen == 2

OrganismChars == {"a", "A", "b", "z"}

\* GapMindInput.organism after validation (stripped; <<>>: None or empty)
OrganismInputs == StringsUpTo(OrganismChars, MaxOrganismLen)

\* GapMindInput.org_id (0: None or empty)
OrgIdInputs == {0, 7}

AnalysisTypes == {"aa", "carbon"}

\* the names of the links of the index pages of the model, cyclically
IndexNames ==
    << << <<"a", "b">>, <<"b", "a", "b">>, <<"A">> >>,
       << <<"b", "b">>, <<>>, <<"b", "a">> >> >>

\* index pages: n links; in the second family every fourth href matches no
\* identifier and every third link has no text
IndexPages ==
    { [i \in 1..n |->
          [org_id |-> IF f = 2 /\ i % 4 = 0 THEN 0 ELSE i,
           name |-> IndexNames[f][((i - 1) % 3) + 1]]] :
      n \in 0..MaxIndexLinks, f \in 1..Len(IndexNames) }

HighAnchor == Anchor("color: #007000; font-weight: bold;", "/cgi-bin/gapView.cgi?path=arg", <<"arg">>)
LowAnchor == Anchor("color: #CC4444;", "gapView.cgi?path=arg", <<"his">>)

BlackAnchor == Anchor("color: #000000;", "gapView.cgi?path=arg", <<"trp">>)
BlackBoldAnchor == Anchor("color: #000000; font-weight: bold;", "gapView.cgi?path=arg", <<"leu">>)
GreenAnchor == Anchor("color: #007000;", "gapView.cgi?path=arg", <<"ser">>)

PathwayPages ==
    { Page(<<>>, FALSE, <<>>, <<>>),
      Page(<<"GapMind", "for", "E.", "coli">>, FALSE, <<>>,
           << << Row("", "", <<Cell("th", "", <<"Pathway">>, <<>>), Cell("th", "", <<"Steps">>, <<>>)>>),
                 Row("", "", <<Cell("td", "", <<"arg">>, <<HighAnchor>>), Cell("td", "", <<"argA">>, <<>>)>>),
                 Row("", "", <<Cell("td", "", <<"his">>, <<LowAnchor>>), Cell("td", "", <<"hisG">>, <<>>)>>) >> >>),
      Page(<<"GapMind", "for", "B.", "theta">>, FALSE, <<>>,
           << << Row("", "", <<Cell("td", "", <<"trp">>, <<BlackAnchor>>), Cell("td", "", <<"trpA">>, <<>>)>>),
                 Row("", "", <<Cell("td", "", <<"leu">>, <<BlackBoldAnchor>>), Cell("td", "", <<"leuA">>, <<>>)>>),
                 Row("", "", <<Cell("td", "", <<"ser">>, <<GreenAnchor>>), Cell("td", "", <<"serA">>, <<>>)>>),
                 Row("#FFFF99", "", <<Cell("td", "", <<"gly">>, <<>>), Cell("td", "", <<"glyA">>, <<>>)>>),
                 Row("", "", <<Cell("td", "", <<"pro">>, <<>>), Cell("td", "", <<"proC">>, <<>>)>>) >> >>) }

GapmindInit ==
    /\ pc = "idle"
    /\ tool = "none"
    /\ params = [analysis_type |-> "aa", organism |-> <<>>, org_id |-> 0]
    /\ requests = <<>>
    /\ soup = <<>>
    /\ organisms = <<>>
    /\ result = NoResult

\* mutation: an organism name takes precedence over org_id
InvokeGapmindCheckNameFirst ==
    /\ pc = "idle"
    /\ \E t \in AnalysisTypes, o \in OrganismInputs, id \in OrgIdInputs :
           /\ tool' = "gapmind_check"
           /\ params' = [analysis_type |-> t, organism |-> o, org_id |-> id]
           /\ requests' = Append(requests,
                  IF id # 0 /\ o = <<>> THEN PathwayRequest(t, id) ELSE IndexRequest(t))
           /\ pc' = IF id # 0 /\ o = <<>> THEN "await2" ELSE "await"
           /\ UNCHANGED <<soup, organisms, result>>

\* mutation: mode 1 requests the organism index as well
InvokeGapmindCheckIndexToo ==
    /\ pc = "idle"
    /\ \E t \in AnalysisTypes, o \in OrganismInputs, id \in OrgIdInputs :
           /\ tool' = "gapmind_check"
           /\ params' = [analysis_type |-> t, organism |-> o, org_id |-> id]
           /\ requests' = IF id # 0
                           THEN requests \o <<IndexRequest(t), PathwayRequest(t, id)>>
                           ELSE Append(requests, IndexRequest(t))
           /\ pc' = IF id # 0 THEN "await2" ELSE "await"
           /\ UNCHANGED <<soup, organisms, result>>

\* gapmind_check up to its first awaited _get: the pathway page in mode 1,
\* the organism index in modes 2 and 3
InvokeGapmindCheck ==
    /\ pc = "idle"
    /\ \E t \in AnalysisTypes, o \in OrganismInputs, id \in OrgIdInputs :
           /\ tool' = "gapmind_check"
           /\ params' = [analysis_type |-> t, organism |-> o, org_id |-> id]
           /\ requests' = Append(requests,
                  IF id # 0 THEN PathwayRequest(t, id) ELSE IndexRequest(t))
           /\ pc' = IF id # 0 THEN "await2" ELSE "await"
           /\ UNCHANGED <<soup, organisms, result>>

\* the index page arrives: modes 2 and 3 from _parse_organism_index on
RespondIndex ==
    /\ pc = "await"
    /\ tool = "gapmind_check"
    /\ \E links \in IndexPages :
           LET orgs == ParseOrganismIndex(links)
               match == FindOrganismId(orgs, params.organism)
           IN  /\ soup' = links
               /\ organisms' = orgs
               /\ IF params.organism = <<>>
                  THEN /\ result' = OrganismIndex(params.analysis_type, Len(orgs), orgs, <<>>)
                       /\ pc' = "done"
                       /\ UNCHANGED requests
                  ELSE IF orgs = <<>>
                  THEN /\ result' = OrganismIndex(params.analysis_type, 0, <<>>,
                                        <<Warning("empty_index", <<>>, 0, 0)>>)
                       /\ pc' = "done"
                       /\ UNCHANGED requests
                  ELSE IF match = NoOrganism
                  THEN /\ result' = UnmatchedIndex(params, orgs)
                       /\ pc' = "done"
                       /\ UNCHANGED requests
                  ELSE /\ requests' = Append(requests,
                              PathwayRequest(params.analysis_type, match.org_id))
                       /\ pc' = "await2"
                       /\ UNCHANGED result
               /\ UNCHANGED <<tool, params>>

\* the pathway page arrives: the rest of mode 1 and of mode 2
RespondPathways ==
    /\ pc = "await2"
    /\ tool = "gapmind_check"
    /\ \E page \in PathwayPages :
           LET match == FindOrganismId(organisms, params.organism)
           IN  /\ soup' = page
               /\ result' =
                    IF params.org_id # 0
                    THEN GapmindResults(params.analysis_type, params.org_id, page, <<>>)
                    ELSE GapmindResults(params.analysis_type, match.org_id, page,
                             IF Lower(match.name) # Lower(params.organism)
                             THEN <<Warning("fuzzy", params.organism, match.org_id, 0)>>
                             ELSE <<>>)
               /\ pc' = "done"
               /\ UNCHANGED <<tool, params, requests, organisms>>

\* mutation: a failed request is issued once more before giving up
FailGapmindCheckRetry ==
    /\ pc \in {"await", "await2"}
    /\ tool = "gapmind_check"
    /\ \E e \in Failures :
           IF Len(requests) < 3
           THEN /\ requests' = Append(requests, requests[Len(requests)])
                /\ UNCHANGED <<pc, tool, params, soup, organisms, result>>
           ELSE /\ result' = ErrorResult(e)
                /\ pc' = "done"
                /\ UNCHANGED <<tool, params, requests, soup, organisms>>

\* _get raises at either request: the except branch of the handler
FailGapmindCheck ==
    /\ pc \in {"await", "await2"}
    /\ tool = "gapmind_check"
    /\ \E e \in Failures :
           /\ result' = ErrorResult(e)
           /\ pc' = "done"
           /\ UNCHANGED <<tool, params, requests, soup, organisms>>

\* gapmind_list_organisms up to the awaited _get; organism and org_id are
\* accepted and ignored
InvokeListOrganisms ==
    /\ pc = "idle"
    /\ \E t \in AnalysisTypes, id \in OrgIdInputs :
           /\ tool' = "gapmind_list_organisms"
           /\ params' = [analysis_type |-> t, organism |-> <<>>, org_id |-> id]
           /\ requests' = Append(requests, IndexRequest(t))
           /\ pc' = "await"
           /\ UNCHANGED <<soup, organisms, result>>

\* the index page arrives: the rest of gapmind_list_organisms
RespondListOrganisms ==
    /\ pc = "await"
    /\ tool = "gapmind_list_organisms"
    /\ \E links \in IndexPages :
           LET orgs == ParseOrganismIndex(links)
           IN  /\ soup' = links
               /\ organisms' = orgs
               /\ result' = OrganismIndex(params.analysis_type, Len(orgs), orgs, <<>>)
               /\ pc' = "done"
               /\ UNCHANGED <<tool, params, requests>>

\* _get raises: the except branch of gapmind_list_organisms
FailListOrganisms ==
    /\ pc = "await"
    /\ tool = "gapmind_list_organisms"
    /\ \E e \in Failures :
           /\ result' = ErrorResult(e)
           /\ pc' = "done"
           /\ UNCHANGED <<tool, params, requests, soup, organisms>>

GapmindNext ==
    \/ InvokeGapmindCheck
    \/ RespondIndex
    \/ RespondPathways
    \/ FailGapmindCheck
    \/ InvokeListOrganisms
    \/ RespondListOrganisms
    \/ FailListOrganisms

SpecGapmind == GapmindInit /\ [][GapmindNext]_vars

\* gapmind_check was called with an organism name and no org_id, its index
\* request was answered with a non-empty index, and the resolver found none
UnresolvedName ==
    /\ tool = "gapmind_check"
    /\ params.org_id = 0
    /\ params.organism # <<>>
    /\ pc \in {"await2", "done"}
    /\ organisms # <<>>
    /\ FindOrganismId(organisms, params.organism) = NoOrganism

\* C9: called with an organism name and no org_id, on a non-empty index in
\* which the resolver finds none, gapmind_check returns an organism-index
\* envelope of at most 20 organisms (the first ones of the index), with
\* total_organisms the full index size and a warning naming the query, and
\* its only request is the index request.
C9_UnresolvedReturnsIndex ==
    UnresolvedName
    => /\ pc = "done"
       /\ result.kind = "GapMindOrganismIndex"
       /\ Len(result.organisms) <= SuggestCap
       /\ result.organisms = SubSeq(organisms, 1, Len(result.organisms))
       /\ result.total_organisms = Len(organisms)
       /\ \E k \in 1..Len(result.warnings) :
              result.warnings[k].kind = "no_match" /\ result.warnings[k].text = params.organism
       /\ requests = <<IndexRequest(params.analysis_type)>>

\* C9 witness: an index of 22 organisms, none matching "zz": 20 returned,
\* total 22.
C9_Witness ==
    /\ UnresolvedName
    /\ params.organism = <<"z", "z">>
    /\ Len(organisms) = 22
    /\ result.kind = "GapMindOrganismIndex"
    /\ Len(result.organisms) = 20
    /\ result.total_organisms = 22

-----------------------------------------------------------------------------
(* _parse_genome_search and curated_blast_search                           *)

\* len(word) of the words of the genome-search pages of the model
WordLen(w) ==
    CASE w = "minD" -> 4
      [] w = "b1175" -> 5
      [] w = "septum" -> 6
      [] w = "site-determining" -> 16
      [] w = "protein" -> 7
      [] w = "MinD" -> 4
      [] w = "98%" -> 3
      [] w = "identity" -> 8
      [] w = "ATPase" -> 6
      [] OTHER -> 1

\* len(text) of a cleaned text: its words and the single blanks between them
RECURSIVE TextLen(_)
TextLen(text) ==
    IF text = <<>> THEN 0
    ELSE IF Len(text) = 1 THEN WordLen(text[1])
    ELSE WordLen(Head(text)) + 1 + TextLen(Tail(text))

\* text[:n], to whole words: the longest prefix of words of at most n
\* characters
RECURSIVE Clip(_, _)
Clip(text, n) ==
    IF TextLen(text) <= n THEN text ELSE Clip(SubSeq(text, 1, Len(text) - 1), n)

\* limits of the slices in _parse_genome_search
DescLimit == 300
IdentityLimit == 60
DetailsLimit == 400
MinDescLen == 5
GenomeLinksKept == 3
BestRowsChecked == 3

\* row.find_all("td")
TdCells(row) == SelectSeq(row.cells, LAMBDA c : c.tag = "td")

\* the links of a row with text and href, their href without the word given
LinksWithout(row, needle) ==
    LET as == SelectSeq(RowLinks(row),
                  LAMBDA a : a.text # <<>> /\ a.href # "" /\ ~HrefHas(a.href, needle))
    IN  [i \in 1..Len(as) |-> [text |-> as[i].text, href |-> as[i].href]]

\* a <table> is a genome-protein table: its row 0 has no bgcolor, two <td>
\* or more and a description of five characters or more
IsGenomeTable(table) ==
    /\ table # <<>>
    /\ table[1].bgcolor = ""
    /\ Len(TdCells(table[1])) >= 2
    /\ TextLen(TdCells(table[1])[1].text) >= MinDescLen

\* the CuratedMatch _parse_genome_search appends for a genome-protein table
TableMatch(table) ==
    LET header_row == table[1]
        genome_desc == TdCells(header_row)[1].text
        genome_links == LinksWithout(header_row, "litSearch")
        last == IF Len(table) < 1 + BestRowsChecked THEN Len(table) ELSE 1 + BestRowsChecked
        \* the first of rows[1:4] with a bgcolor and a <td>
        best == {i \in 2..last : table[i].bgcolor # "" /\ TdCells(table[i]) # <<>>}
        best_row == table[CHOOSE i \in best : \A j \in best : i <= j]
        best_desc == IF best = {} THEN <<>> ELSE Clip(TdCells(best_row)[1].text, DescLimit)
        best_identity == IF best = {} \/ Len(TdCells(best_row)) < 2 THEN <<>>
                         ELSE Clip(TdCells(best_row)[2].text, IdentityLimit)
        best_links == IF best = {} THEN <<>> ELSE LinksWithout(best_row, "showAlign")
        \* counted at line 530 and not passed to CuratedMatch
        n_curated == Cardinality({i \in 2..Len(table) : table[i].bgcolor # ""})
    IN  [description |-> Clip(genome_desc, DescLimit),
         details |-> IF best_desc # <<>>
                     THEN Clip(<<"Best", "curated", "match">> \o best_identity \o best_desc,
                               DetailsLimit)
                     ELSE <<>>,
         organism |-> <<>>,
         identity |-> best_identity,
         coverage |-> <<>>,
         links |-> SliceTo(genome_links, GenomeLinksKept) \o SliceTo(best_links, 1)]

\* the loop over the tables: matches collected until max_genome_hits
RECURSIVE TableMatches(_, _, _)
TableMatches(tables, max_genome_hits, matches) ==
    IF tables = <<>> \/ Len(matches) >= max_genome_hits THEN matches
    ELSE IF IsGenomeTable(Head(tables))
    THEN TableMatches(Tail(tables), max_genome_hits, Append(matches, TableMatch(Head(tables))))
    ELSE TableMatches(Tail(tables), max_genome_hits, matches)

\* re.search(r"Found (\d+) relevant protein", text): the number, -1 if the
\* text does not match
RelevantCount(text) ==
    LET hits == {i \in 1..(Len(text) - 3) :
                     /\ text[i] = "Found"
                     /\ ToInt(text[i + 1]) >= 0
                     /\ text[i + 2] = "relevant"
                     /\ text[i + 3] \in {"protein", "proteins"}}
    IN  IF hits = {} THEN -1
        ELSE ToInt(text[(CHOOSE i \in hits : \A j \in hits : i <= j) + 1])

\* soup.find("tr", attrs={"bgcolor": True})
HasBgcolorRow(page) ==
    \E t \in 1..Len(page.tables) :
        \E r \in 1..Len(page.tables[t]) : page.tables[t][r].bgcolor # ""

\* total_genome_proteins: the number of the first text that states one,
\* else 0
TotalGenomeProteins(page) ==
    LET found == {i \in 1..Len(page.texts) : RelevantCount(page.texts[i]) >= 0}
    IN  IF found = {} THEN 0
        ELSE RelevantCount(page.texts[CHOOSE i \in found : \A j \in found : i <= j])

\* mutation: the truncation warning is given only when the cap was reached
ParseGenomeResultsWarnAtCap(page, max_genome_hits) ==
    LET total_genome_proteins == TotalGenomeProteins(page)
        matches == TableMatches(page.tables, max_genome_hits, <<>>)
    IN  [query_info |-> page.title,
         total_matches |-> IF total_genome_proteins # 0 THEN total_genome_proteins
                           ELSE Len(matches),
         matches |-> matches,
         warnings |-> IF Len(matches) >= max_genome_hits
                         /\ Len(matches) < total_genome_proteins
                      THEN <<Warning("truncated", <<>>, Len(matches), total_genome_proteins)>>
                      ELSE <<>>]

\* the results page part of _parse_genome_search (after the form test)
ParseGenomeResults(page, max_genome_hits) ==
    LET total_genome_proteins == TotalGenomeProteins(page)
        matches == TableMatches(page.tables, max_genome_hits, <<>>)
    IN  [query_info |-> page.title,
         total_matches |-> IF total_genome_proteins # 0 THEN total_genome_proteins
                           ELSE Len(matches),
         matches |-> matches,
         warnings |-> IF total_genome_proteins # 0 /\ Len(matches) < total_genome_proteins
                      THEN <<Warning("truncated", <<>>, Len(matches), total_genome_proteins)>>
                      ELSE <<>>]

\* mutation: the query form is not recognised
ParseGenomeSearchNoFormTest(page, max_genome_hits) ==
    ParseGenomeResults(page, max_genome_hits)

\* _parse_genome_search(soup, max_genome_hits)
ParseGenomeSearch(page, max_genome_hits) ==
    IF page.gdb_select /\ ~HasBgcolorRow(page)
    THEN [query_info |-> page.title,
          total_matches |-> 0,
          matches |-> <<>>,
          warnings |-> <<Warning("genome_form", <<>>, 0, 0)>>]
    ELSE ParseGenomeResults(page, max_genome_hits)

\* cgi_params of curated_blast_search
CuratedRequest(p) ==
    Request("genomeSearch.cgi",
            <<<<"query", p.query>>>>
            \o (IF p.genome_db # "" THEN <<<<"gdb", p.genome_db>>>> ELSE <<>>)
            \o (IF p.genome_id # "" THEN <<<<"gid", p.genome_id>>>> ELSE <<>>)
            \o (IF p.word_match THEN <<<<"word", "1">>>> ELSE <<>>))

\* curated_blast_search, from the parse of the response to the envelope
CuratedBlastSearch(p, page) ==
    LET results == ParseGenomeSearch(page, p.max_genome_hits)
    IN  [kind |-> "CuratedBlastResults",
         query_info |-> results.query_info,
         total_matches |-> results.total_matches,
         matches |-> results.matches,
         search_url |-> Request("genomeSearch.cgi", <<<<"query", p.query>>>>),
         warnings |-> results.warnings]

\* Bounded inputs of curated_blast_search.
MaxTables == 2
MaxGenomeHits == 2

GenomeLink == Anchor("", "genome.cgi?locus=b1175", <<"b1175">>)
CuratedLink == Anchor("", "curated.cgi?id=MinD", <<"MinD">>)
AlignLink == Anchor("", "showAlign.cgi?def1=x", <<"98%", "identity">>)

GenomeRow ==
    Row("", "", <<Cell("td", "", <<"minD", "b1175", "septum", "site-determining", "protein">>,
                       <<GenomeLink>>),
                  Cell("td", "", <<>>, <<>>)>>)

CuratedRowA ==
    Row("#F2F2F2", "", <<Cell("td", "", <<"MinD", "ATPase">>, <<AlignLink, CuratedLink>>),
                         Cell("td", "", <<"98%", "identity">>, <<>>)>>)

CuratedRowB ==
    Row("#FCF3CF", "", <<Cell("td", "", <<"septum", "protein">>, <<CuratedLink>>)>>)

ShortRow == Row("", "", <<Cell("td", "", <<"minD">>, <<>>), Cell("td", "", <<>>, <<>>)>>)

LayoutRow == Row("", "", <<Cell("td", "", <<"septum", "site-determining", "protein">>, <<>>)>>)

TablePool ==
    { <<GenomeRow, CuratedRowA, CuratedRowB>>,
      <<GenomeRow>>,
      <<GenomeRow, LayoutRow, CuratedRowB>>,
      <<GenomeRow, LayoutRow, LayoutRow, LayoutRow, CuratedRowA>>,
      <<CuratedRowA, CuratedRowB>>,
      <<ShortRow>>,
      <<LayoutRow>>,
      <<>> }

GenomePages ==
    { Page(title, gdb, texts, tables) :
        title \in {<<>>, <<"Curated", "BLAST">>},
        gdb \in BOOLEAN,
        texts \in {<<>>, << <<"Found", "3", "relevant", "proteins">> >>},
        tables \in SeqsUpTo(TablePool, MaxTables) }

CuratedInit ==
    /\ pc = "idle"
    /\ tool = "none"
    /\ params = [query |-> "", genome_db |-> "", genome_id |-> "",
                 word_match |-> FALSE, max_genome_hits |-> 1]
    /\ requests = <<>>
    /\ soup = <<>>
    /\ organisms = <<>>
    /\ result = NoResult

\* curated_blast_search up to the awaited _get
InvokeCuratedBlastSearch ==
    /\ pc = "idle"
    /\ \E gid \in {"", "GCF_000005845.2"}, w \in BOOLEAN, mg \in 1..MaxGenomeHits :
           LET p == [query |-> "alcohol dehydrogenase", genome_db |-> "NCBI",
                     genome_id |-> gid, word_match |-> w, max_genome_hits |-> mg]
           IN  /\ tool' = "curated_blast_search"
               /\ params' = p
               /\ requests' = Append(requests, CuratedRequest(p))
               /\ pc' = "await"
               /\ UNCHANGED <<soup, organisms, result>>

\* _get returns the parsed page: the rest of curated_blast_search
RespondCuratedBlastSearch ==
    /\ pc = "await"
    /\ tool = "curated_blast_search"
    /\ \E page \in GenomePages :
           /\ soup' = page
           /\ result' = CuratedBlastSearch(params, page)
           /\ pc' = "done"
           /\ UNCHANGED <<tool, params, requests, organisms>>

\* _get raises: the except branch of the handler
FailCuratedBlastSearch ==
    /\ pc = "await"
    /\ tool = "curated_blast_search"
    /\ \E e \in Failures :
           /\ result' = ErrorResult(e)
           /\ pc' = "done"
           /\ UNCHANGED <<tool, params, requests, soup, organisms>>

CuratedNext ==
    \/ InvokeCuratedBlastSearch
    \/ RespondCuratedBlastSearch
    \/ FailCuratedBlastSearch

SpecCurated == CuratedInit /\ [][CuratedNext]_vars

\* curated_blast_search returned an envelope for a response that is the
\* unfilled query form: the gdb selector, and no row with a bgcolor
FormReturned ==
    /\ pc = "done" /\ tool = "curated_blast_search"
    /\ result.kind = "CuratedBlastResults"
    /\ soup.gdb_select
    /\ \A t \in 1..Len(soup.tables) :
           \A r \in 1..Len(soup.tables[t]) : soup.tables[t][r].bgcolor = ""

-----------------------------------------------------------------------------
\* a bare accession: capital letters and digits only
IsBareAccession(id) ==
    id # <<>> /\ \A k \in 1..Len(id) : id[k] \in UpperLetters \cup Digits

\* a raw locus tag such as b1175: small letters, then digits
IsLocusTag(id) ==
    \E n \in 1..(Len(id) - 1) :
        /\ \A k \in 1..n : id[k] \in LowerLetters
        /\ \A k \in (n + 1)..Len(id) : id[k] \in Digits

\* C11: the detail_id of every hit _parse_hit_block returns is empty or a
\* bare accession: it holds no "::", is no "NAME / ACCESSION" display name
\* and is no raw locus tag.
C11_DetailIdBareAccession ==
    (pc = "done" /\ tool = "_parse_hit_block" /\ result # <<>>)
    => LET id == result[1].detail_id
       IN  \/ id = <<>>
           \/ /\ IsBareAccession(id)
              /\ ~Contains(id, ColonSep)
              /\ ~Contains(id, SlashSep)
              /\ ~IsLocusTag(id)

-----------------------------------------------------------------------------
\* the canonical URL field of a result envelope
EnvelopeUrl(r) ==
    CASE r.kind = "PaperBlastResults" -> r.search_url
      [] r.kind = "GenePapersResults" -> r.detail_url
      [] r.kind = "CuratedBlastResults" -> r.search_url
      [] r.kind = "GapMindResults" -> r.gapmind_url
      [] r.kind = "GapMindOrganismIndex" -> r.index_url

EnvelopeKinds ==
    {"PaperBlastResults", "GenePapersResults", "CuratedBlastResults",
     "GapMindResults", "GapMindOrganismIndex"}

\* C12: the canonical URL of every envelope that is returned names the
\* endpoint and carries the query parameters, with their values, of the
\* request that produced the envelope.
C12_UrlCarriesRequestParams ==
    (pc = "done" /\ result.kind \in EnvelopeKinds)
    => /\ requests # <<>>
       /\ EnvelopeUrl(result) = requests[Len(requests)]

-----------------------------------------------------------------------------
\* gapmind_check runs in mode 2 and its organism name was resolved: the one
\* case in which a handler goes on to a second request
ResolvedByName ==
    /\ tool = "gapmind_check"
    /\ params.org_id = 0
    /\ params.organism # <<>>
    /\ organisms # <<>>
    /\ FindOrganismId(organisms, params.organism) # NoOrganism

\* C13 as stated: every invocation that has returned issued exactly one
\* request.
C13_ExactlyOneRequest ==
    pc = "done" => Len(requests) = 1

\* C13 amended: an invocation issues one request, except gapmind_check with
\* an organism name that resolves, which issues the index request and then
\* the pathway request; nothing is parsed while the first request is
\* pending, and no result exists while any request is pending.
C13_RequestsAwaitedBeforeParsing ==
    /\ pc = "idle" => requests = <<>>
    /\ pc = "await"
          => /\ Len(requests) = 1
             /\ soup = <<>> /\ organisms = <<>> /\ result = NoResult
    /\ pc = "await2"
          => /\ result = NoResult
             /\ IF params.org_id # 0
                THEN Len(requests) = 1 /\ soup = <<>> /\ organisms = <<>>
                ELSE /\ ResolvedByName
                     /\ requests = <<IndexRequest(params.analysis_type),
                                      PathwayRequest(params.analysis_type,
                                          FindOrganismId(organisms, params.organism).org_id)>>
    /\ pc = "done" => Len(requests) = IF ResolvedByName THEN 2 ELSE 1

\* C13 witness: gapmind_check resolved a name and returned pathways after
\* its two requests.
C13_Witness ==
    /\ pc = "done" /\ ResolvedByName
    /\ result.kind = "GapMindResults"
    /\ Len(requests) = 2
    /\ requests[1] = IndexRequest(params.analysis_type)
    /\ requests[2] = PathwayRequest(params.analysis_type, result.org_id)

-----------------------------------------------------------------------------
\* message.startswith("Error:"), for the messages _handle_error builds
StartsWithError(message) ==
    message \in
        {"Error: Endpoint not found. The PaperBLAST server may be down.",
         "Error: PaperBLAST server error. The query may be malformed or the server is overloaded.",
         "Error: HTTP 503 from PaperBLAST server.",
         "Error: Request timed out. BLAST searches on long sequences can take >30s. Try a shorter sequence or an identifier.",
         "Error: ConnectError"}

\* C14: no internal retry.  A failed request ends the invocation with an
\* error string that starts with "Error:" and no envelope; after it no
\* request is issued and the result does not change; and no invocation
\* requests the same endpoint with the same parameters twice.
C14_NoRetryAfterFailure ==
    /\ [](/\ result.kind = "Error"
              => pc = "done" /\ StartsWithError(result.message)
          /\ \A i, j \in 1..Len(requests) : i # j => requests[i] # requests[j])
    /\ [][result.kind = "Error" => (requests' = requests /\ result' = result)]_vars

\* C14 witness: gapmind_check with an organism name failed at its index
\* request and returned an error after that one request.
C14_Witness ==
    /\ pc = "done" /\ tool = "gapmind_check"
    /\ params.org_id = 0 /\ params.organism # <<>>
    /\ result.kind = "Error" /\ StartsWithError(result.message)
    /\ requests = <<IndexRequest(params.analysis_type)>>

-----------------------------------------------------------------------------
\* the page has no <h3>
NoHeader == \A i \in 1..Len(soup) : soup[i].tag # "h3"

\* the page has no <p> stating the total count
NoTotalParagraph ==
    \A i \in 1..Len(soup) : ~(IsP(soup[i]) /\ FoundCount(CleanText(soup[i])) >= 0)

\* C15: for every literature-search page from which an expected element is
\* absent, a result is still returned with the affected field at its
\* default, and the absence is reported in warnings: no <h3> leaves
\* query_info empty, no total-count paragraph leaves total_found 0, a hit
\* without identity link has empty identity and coverage, and in each case
\* warnings is not empty.
C15_MissingMarkupIsReported ==
    SearchReturned
    => /\ NoHeader => (result.query_info = <<>> /\ result.warnings # <<>>)
       /\ NoTotalParagraph => (result.total_found = 0 /\ result.warnings # <<>>)
       /\ \A k \in 1..Len(result.hits) :
              result.hits[k].identity = <<>>
              => (result.hits[k].coverage = <<>> /\ result.warnings # <<>>)

-----------------------------------------------------------------------------
(* Concurrent invocations.  Each invocation is a coroutine of the event    *)
(* loop with its own frame: here every variable is a function of the       *)
(* invocation, and a step is one invocation running from one await to the  *)
(* next.  The module keeps no mutable state outside the frames: _get opens *)
(* a client of its own for every request.                                  *)

MaxInvocations == 2

Invocations == 1..MaxInvocations

ConcDocs == { <<>>, <<HitCurated>>, <<FoundP, HitGene, UlSnip>> }

ConcIndexPages ==
    { <<>>,
      [i \in 1..2 |-> [org_id |-> i, name |-> IndexNames[1][i]]] }

ConcOrganisms == { <<"a", "b">>, <<"z">> }

ConcInit ==
    /\ pc = [i \in Invocations |-> "idle"]
    /\ tool = [i \in Invocations |-> "none"]
    /\ params = [i \in Invocations |-> <<>>]
    /\ requests = [i \in Invocations |-> <<>>]
    /\ soup = [i \in Invocations |-> <<>>]
    /\ organisms = [i \in Invocations |-> <<>>]
    /\ result = [i \in Invocations |-> NoResult]

\* invocation i enters paperblast_search and suspends at its _get
ConcInvokeSearch(i) ==
    /\ pc[i] = "idle"
    /\ \E mh \in {-1, 1} :
           /\ tool' = [tool EXCEPT ![i] = "paperblast_search"]
           /\ params' = [params EXCEPT ![i] = [query |-> "P0AEZ3", max_hits |-> mh]]
           /\ requests' = [requests EXCEPT
                               ![i] = <<Request("litSearch.cgi", <<<<"query", "P0AEZ3">>>>)>>]
           /\ pc' = [pc EXCEPT ![i] = "await"]
           /\ UNCHANGED <<soup, organisms, result>>

\* mutation: pages are cached by endpoint: a page another invocation got
\* from litSearch.cgi is parsed instead of the response
ConcRespondSearchCached(i) ==
    /\ pc[i] = "await"
    /\ tool[i] = "paperblast_search"
    /\ \E doc \in ConcDocs :
           LET cached == {j \in Invocations \ {i} :
                             tool[j] = "paperblast_search" /\ pc[j] = "done"
                             /\ result[j].kind # "Error"}
               page == IF cached = {} THEN doc ELSE soup[CHOOSE j \in cached : TRUE]
           IN  /\ soup' = [soup EXCEPT ![i] = doc]
               /\ result' = [result EXCEPT ![i] = PaperblastSearch(params[i], page)]
               /\ pc' = [pc EXCEPT ![i] = "done"]
               /\ UNCHANGED <<tool, params, requests, organisms>>

\* the response of invocation i arrives: the rest of paperblast_search
ConcRespondSearch(i) ==
    /\ pc[i] = "await"
    /\ tool[i] = "paperblast_search"
    /\ \E doc \in ConcDocs :
           /\ soup' = [soup EXCEPT ![i] = doc]
           /\ result' = [result EXCEPT ![i] = PaperblastSearch(params[i], doc)]
           /\ pc' = [pc EXCEPT ![i] = "done"]
           /\ UNCHANGED <<tool, params, requests, organisms>>

\* invocation i enters gapmind_check with an organism name and suspends at
\* the index request
ConcInvokeGapmind(i) ==
    /\ pc[i] = "idle"
    /\ \E o \in ConcOrganisms :
           /\ tool' = [tool EXCEPT ![i] = "gapmind_check"]
           /\ params' = [params EXCEPT
                             ![i] = [analysis_type |-> "aa", organism |-> o, org_id |-> 0]]
           /\ requests' = [requests EXCEPT ![i] = <<IndexRequest("aa")>>]
           /\ pc' = [pc EXCEPT ![i] = "await"]
           /\ UNCHANGED <<soup, organisms, result>>

\* the index of invocation i arrives: gapmind_check up to its return or to
\* its second _get
ConcRespondIndex(i) ==
    /\ pc[i] = "await"
    /\ tool[i] = "gapmind_check"
    /\ \E links \in ConcIndexPages :
           LET orgs == ParseOrganismIndex(links)
               match == FindOrganismId(orgs, params[i].organism)
           IN  /\ soup' = [soup EXCEPT ![i] = links]
               /\ organisms' = [organisms EXCEPT ![i] = orgs]
               /\ IF orgs = <<>>
                  THEN /\ result' = [result EXCEPT
                                        ![i] = OrganismIndex("aa", 0, <<>>,
                                                   <<Warning("empty_index", <<>>, 0, 0)>>)]
                       /\ pc' = [pc EXCEPT ![i] = "done"]
                       /\ UNCHANGED requests
                  ELSE IF match = NoOrganism
                  THEN /\ result' = [result EXCEPT ![i] = UnmatchedIndex(params[i], orgs)]
                       /\ pc' = [pc EXCEPT ![i] = "done"]
                       /\ UNCHANGED requests
                  ELSE /\ requests' = [requests EXCEPT
                                          ![i] = Append(@, PathwayRequest("aa", match.org_id))]
                       /\ pc' = [pc EXCEPT ![i] = "await2"]
                       /\ UNCHANGED result
               /\ UNCHANGED <<tool, params>>

\* the pathway page of invocation i arrives: the rest of gapmind_check
ConcRespondPathways(i) ==
    /\ pc[i] = "await2"
    /\ tool[i] = "gapmind_check"
    /\ \E page \in PathwayPages :
           LET match == FindOrganismId(organisms[i], params[i].organism)
           IN  /\ soup' = [soup EXCEPT ![i] = page]
               /\ result' = [result EXCEPT
                                ![i] = GapmindResults("aa", match.org_id, page,
                                           IF Lower(match.name) # Lower(params[i].organism)
                                           THEN <<Warning("fuzzy", params[i].organism,
                                                          match.org_id, 0)>>
                                           ELSE <<>>)]
               /\ pc' = [pc EXCEPT ![i] = "done"]
               /\ UNCHANGED <<tool, params, requests, organisms>>

\* the request invocation i awaits raises: the except branch of its handler
ConcFail(i) ==
    /\ pc[i] \in {"await", "await2"}
    /\ \E e \in {"timeout", "http500"} :
           /\ result' = [result EXCEPT ![i] = ErrorResult(e)]
           /\ pc' = [pc EXCEPT ![i] = "done"]
           /\ UNCHANGED <<tool, params, requests, soup, organisms>>

ConcNext ==
    \E i \in Invocations :
        \/ ConcInvokeSearch(i)
        \/ ConcRespondSearch(i)
        \/ ConcInvokeGapmind(i)
        \/ ConcRespondIndex(i)
        \/ ConcRespondPathways(i)
        \/ ConcFail(i)

SpecConcurrent == ConcInit /\ [][ConcNext]_vars

\* the frame of invocation i
Frame(i) == <<pc[i], tool[i], params[i], requests[i], soup[i], organisms[i], result[i]>>

\* what invocation i returns when it runs alone with its parameters on the
\* responses it received: the last one in soup[i], the parsed index of
\* gapmind_check in organisms[i]
AloneResult(i) ==
    IF tool[i] = "paperblast_search" THEN PaperblastSearch(params[i], soup[i])
    ELSE IF organisms[i] = <<>>
    THEN OrganismIndex("aa", 0, <<>>, <<Warning("empty_index", <<>>, 0, 0)>>)
    ELSE IF FindOrganismId(organisms[i], params[i].organism) = NoOrganism
    THEN UnmatchedIndex(params[i], organisms[i])
    ELSE GapmindResults("aa", FindOrganismId(organisms[i], params[i].organism).org_id,
             soup[i],
             IF Lower(FindOrganismId(organisms[i], params[i].organism).name)
                    # Lower(params[i].organism)
             THEN <<Warning("fuzzy", params[i].organism,
                            FindOrganismId(organisms[i], params[i].organism).org_id, 0)>>
             ELSE <<>>)

\* C16: concurrent invocations are independent.  In every interleaving,
\* an invocation that returned an envelope returned the one it returns
\* alone on the responses it received, and every step changes the frame of
\* one invocation only.
C16_InvocationsIndependent ==
    /\ [](\A i \in Invocations :
              (pc[i] = "done" /\ result[i].kind # "Error") => result[i] = AloneResult(i))
    /\ [][\E i \in Invocations :
              \A j \in Invocations \ {i} : Frame(j)' = Frame(j)]_vars

\* C16 witness: a search ran from its request to its envelope while a
\* gapmind_check of another invocation was suspended at its second request.
C16_Witness ==
    /\ pc[1] = "await2" /\ tool[1] = "gapmind_check"
    /\ Len(requests[1]) = 2 /\ result[1] = NoResult
    /\ pc[2] = "done" /\ tool[2] = "paperblast_search"
    /\ result[2].kind = "PaperBlastResults"
    /\ result[2].hits # <<>>
    /\ result[2] = AloneResult(2)

-----------------------------------------------------------------------------
\* curated_blast_search returned an envelope for a results page
ResultsPageReturned ==
    /\ pc = "done" /\ tool = "curated_blast_search"
    /\ result.kind = "CuratedBlastResults"
    /\ ~(soup.gdb_select /\ ~HasBgcolorRow(soup))

\* the genome-protein tables of a page
GenomeTables(page) == {t \in 1..Len(page.tables) : IsGenomeTable(page.tables[t])}

-----------------------------------------------------------------------------
\* the count of curated matches a CuratedMatch carries: -1, as none of its
\* fields (description, details, organism, identity, coverage, links) is
\* a count
CuratedCount(match) ==
    IF "n_curated" \in DOMAIN match THEN match.n_curated ELSE -1

\* the rows after row 0 that carry a bgcolor
ColouredRows(table) == {i \in 2..Len(table) : table[i].bgcolor # ""}

\* C18: every accepted genome-protein table yields exactly one match (up
\* to max_genome_hits); the match embeds the first row with a bgcolor after
\* row 0, wherever in the table it lies, and carries the number of all rows
\* with a bgcolor of that table.
C18_EmbedsBestMatchAndCount ==
    ResultsPageReturned
    => LET accepted == SelectSeq(soup.tables, IsGenomeTable)
       IN  /\ Len(result.matches) =
                  IF Len(accepted) < params.max_genome_hits THEN Len(accepted)
                  ELSE params.max_genome_hits
           /\ \A k \in 1..Len(result.matches) :
                  LET table == accepted[k]
                      first == CHOOSE i \in ColouredRows(table) :
                                   \A j \in ColouredRows(table) : i <= j
                  IN  /\ result.matches[k].description = TdCells(table[1])[1].text
                      /\ ColouredRows(table) # {}
                            => /\ result.matches[k].details # <<>>
                               /\ result.matches[k].identity
                                     = (IF Len(TdCells(table[first])) > 1
                                        THEN TdCells(table[first])[2].text ELSE <<>>)
                      /\ CuratedCount(result.matches[k]) = Cardinality(ColouredRows(table))

-----------------------------------------------------------------------------
\* the tier a style stands for: green and bold high, red low, black that
\* is not bold medium, "" for any other style
StyleTier(style) ==
    IF StyleHas(style, "#007000") /\ StyleHas(style, "bold") THEN "high"
    ELSE IF StyleHas(style, "#cc4444") THEN "low"
    ELSE IF StyleHas(style, "#000000") /\ ~StyleHas(style, "bold") THEN "medium"
    ELSE ""

\* the tier of a pathway row decoded that way: from the first styled anchor
\* of the first cell whose style stands for a tier, else from the row's
\* bgcolor, else "unknown"
RowTier(row) ==
    LET styled == SelectSeq(row.cells[1].links, LAMBDA a : a.style # "")
        decided == {i \in 1..Len(styled) : StyleTier(styled[i].style) # ""}
    IN  IF decided # {}
        THEN StyleTier(styled[CHOOSE i \in decided : \A j \in decided : i <= j].style)
        ELSE IF BgcolorHas(row.bgcolor, "green") \/ BgcolorHas(row.bgcolor, "#90") THEN "high"
        ELSE IF BgcolorHas(row.bgcolor, "yellow") \/ BgcolorHas(row.bgcolor, "#ff") THEN "medium"
        ELSE IF BgcolorHas(row.bgcolor, "red") \/ BgcolorHas(row.bgcolor, "#dd") THEN "low"
        ELSE "unknown"

\* C19: the confidence of every pathway that is returned is decoded from
\* the styled anchors of the first cell of its row: "high" only for green
\* (#007000) with bold, "low" for red (#CC4444), "medium" for plain black
\* (#000000); the row's bgcolor decides only when no anchor style is one of
\* these, and the confidence is "unknown" when the bgcolor decides nothing.
C19_ConfidenceByStyle ==
    (pc = "done" /\ tool = "gapmind_check" /\ result.kind = "GapMindResults")
    => LET rows == SelectSeq(Flatten(soup.tables), LAMBDA r : RowPathway(r) # <<>>)
       IN  /\ Len(result.pathways) = Len(rows)
           /\ \A k \in 1..Len(rows) : result.pathways[k].confidence = RowTier(rows[k])

-----------------------------------------------------------------------------
\* C20: mode precedence of gapmind_check.  With an org_id, whether or not
\* an organism name is given as well, the index is not fetched and the
\* resolver is not run: the one request is the pathway request with that
\* orgId and the envelope carries that org_id.  Without org_id the first
\* request is the index request.
C20_OrgIdTakesPrecedence ==
    (tool = "gapmind_check" /\ pc # "idle")
    => IF params.org_id # 0
       THEN /\ requests = <<PathwayRequest(params.analysis_type, params.org_id)>>
            /\ pc \in {"await2", "done"}
            /\ organisms = <<>>
            /\ (pc = "done" /\ result.kind # "Error")
                  => /\ result.kind = "GapMindResults"
                     /\ result.org_id = params.org_id
                     /\ \A k \in 1..Len(result.warnings) : result.warnings[k].kind # "fuzzy"
       ELSE requests[1] = IndexRequest(params.analysis_type)

\* C20 witness: gapmind_check was called with org_id 7 and an organism
\* name, and returned the pathways of 7 after its one request.
C20_Witness ==
    /\ pc = "done" /\ tool = "gapmind_check"
    /\ params.org_id = 7 /\ params.organism # <<>>
    /\ result.kind = "GapMindResults"
    /\ result.org_id = 7
    /\ result.pathways # <<>>
    /\ requests = <<PathwayRequest(params.analysis_type, 7)>>

-----------------------------------------------------------------------------
(* C21: the lists a hit anchor is given.                                    *)

\* the positions of the <ul> siblings after position i with no sibling
\* satisfying the stop test between them and i
ListsAfter(doc, i, stops) ==
    {j \in (i + 1)..Len(doc) :
        /\ doc[j].tag = "ul"
        /\ \A k \in (i + 1)..(j - 1) : k \notin stops}

\* the hits a page gives when the hit anchor at position i is handed the
\* lists at the positions lists[i], anchors without content dropped
HitsWithLists(doc, lists) ==
    LET anchors == Ascending(HitBlocks(doc))
    IN  Flatten([k \in 1..Len(anchors) |->
            LET uls == Ascending(lists[anchors[k]])
            IN  ParseHitBlock(doc[anchors[k]], [n \in 1..Len(uls) |-> doc[uls[n]]])])

\* C21 as stated: the lists associated with a hit anchor are exactly the
\* <ul> elements among its following siblings up to, and not including, the
\* next hit anchor, in document order: every envelope without truncation
\* holds the hits parsed from the anchors with those lists.
C21_ListsUpToNextHitAnchor ==
    (SearchReturned /\ params.max_hits = -1)
    => result.hits =
         HitsWithLists(soup, [i \in 1..Len(soup) |-> ListsAfter(soup, i, HitBlocks(soup))])

\* C21 as amended: the lists associated with a hit anchor are exactly the
\* <ul> elements among its following siblings up to, and not including, the
\* next paragraph (hit anchor or not), in document order; a list that
\* follows that paragraph is never associated with the earlier anchor.
C21_ListsUpToNextParagraph ==
    (SearchReturned /\ params.max_hits = -1)
    => result.hits =
         HitsWithLists(soup, [i \in 1..Len(soup) |->
                                 ListsAfter(soup, i, {k \in 1..Len(soup) : IsP(soup[k])})])

\* C21 witness: a hit anchor followed by a paragraph that is no hit anchor
\* and then a list of snippets: the list is not given to the anchor, whose
\* hit has no snippet.
C21_Witness ==
    /\ SearchReturned /\ params.max_hits = -1
    /\ soup = <<HitGene, FoundP, UlSnip>>
    /\ Len(result.hits) = 1
    /\ result.hits[1].paper_snippets = <<>>

-----------------------------------------------------------------------------
(* C22: the organism of a curated gene entry.  _parse_hit_block on blocks   *)
(* built from the elements the two sibling walks tell apart.                *)

MaxScanKids == 4

Italic == El("i", <<>>, <<"Escherichia", "coli">>)
ItalicInner == El("i", <<>>, <<"Bacillus", "subtilis">>)
Br == El("br", <<>>, <<>>)
SpanItalic == WithInner(El("span", <<>>, <<>>), <<ItalicInner>>)
FromText == TextNode(<<"from">>)

EntryScanElems ==
    {GeneB, GeneSwissProt, BoldText, Italic, Br, Papers2, SpanItalic, FromText}

EntryScanInit ==
    /\ pc = "idle"
    /\ tool = "_parse_hit_block"
    /\ params \in {[block |-> HitP(k), trailing_uls |-> <<>>] :
                       k \in SeqsUpTo(EntryScanElems, MaxScanKids)}
    /\ requests = <<>>
    /\ soup = <<>>
    /\ organisms = <<>>
    /\ result = <<>>

SpecEntryScan == EntryScanInit /\ [][HitBlockNext]_vars

\* the positions in a block of the anchors that carry 'curated::'
EntryPositions(kids) ==
    Ascending({k \in 1..Len(kids) : kids[k].tag = "a" /\ HasMarker(kids[k], "curated")})

\* the tags that terminate an entry
IsTerminator(el) == el.tag \in {"br", "a", "ul", "p"}

\* the italic text an element offers: its own, or that of an italic child of
\* a wrapper
OfferedItalic(el) ==
    IF el.tag = "i" THEN <<ElText(el)>>
    ELSE IF InnerItalics(el) # <<>> THEN <<ElText(InnerItalics(el)[1])>>
    ELSE <<>>

\* C22: the organism of every curated gene entry is the first italic element
\* found scanning forward from the entry's anchor, one level into wrappers
\* included, before a line break, another anchor, a list or a paragraph; it
\* never comes from an italic at or after the next anchor and is empty if a
\* terminator comes first.
C22_OrganismBeforeTerminator ==
    (pc = "done" /\ tool = "_parse_hit_block" /\ result # <<>>)
    => LET kids == params.block.kids
           at == EntryPositions(kids)
       IN  /\ Len(result[1].gene_entries) = Len(at)
           /\ \A n \in 1..Len(at) :
                LET stops == {j \in (at[n] + 1)..Len(kids) : IsTerminator(kids[j])}
                    found == {j \in (at[n] + 1)..Len(kids) :
                                 /\ OfferedItalic(kids[j]) # <<>>
                                 /\ \A s \in stops : j < s}
                IN  result[1].gene_entries[n].organism =
                      IF found = {} THEN <<>>
                      ELSE OfferedItalic(kids[CHOOSE j \in found : \A m \in found : j <= m])[1]

-----------------------------------------------------------------------------
(* C23: function and subunit.  _parse_hit_block on blocks with labelled     *)
(* list items after and inside the anchor.                                  *)

MaxItems == 3

LiFunction == Li(<<El("b", <<>>, <<"function:">>), TextNode(<<"septum", "site">>)>>)
LiFunctionOther == Li(<<El("b", <<>>, <<"Function:">>), TextNode(<<"ATPase">>)>>)
LiFunctionEmpty == Li(<<El("b", <<>>, <<"function:">>)>>)
LiMerged ==
    Li(<<El("b", <<>>, <<"function:">>), TextNode(<<"septum", "site">>),
         El("b", <<>>, <<"subunit:">>), TextNode(<<"homodimer">>)>>)
LiSubunit == Li(<<El("b", <<>>, <<"Subunit:">>), TextNode(<<"binds", "MinC">>)>>)
LiSubunitEmpty == Li(<<El("b", <<>>, <<"subunit:">>)>>)
LiPlain == Li(<<SnipA>>)

LabelledItems ==
    {LiFunction, LiFunctionOther, LiFunctionEmpty, LiMerged, LiSubunit,
     LiSubunitEmpty, LiPlain}

AnnotationInit ==
    /\ pc = "idle"
    /\ tool = "_parse_hit_block"
    /\ params \in {[block |-> Node("p", TRUE, <<GeneB>>, inside),
                    trailing_uls |-> <<Ul(items)>>] :
                       inside \in SeqsUpTo(LabelledItems, 1),
                       items \in SeqsUpTo(LabelledItems, MaxItems)}
    /\ requests = <<>>
    /\ soup = <<>>
    /\ organisms = <<>>
    /\ result = <<>>

SpecAnnotation == AnnotationInit /\ [][HitBlockNext]_vars

\* the list items _parse_hit_block collects: those of the trailing lists,
\* then those inside the anchor
CollectedItems ==
    Flatten([i \in 1..Len(params.trailing_uls) |-> params.trailing_uls[i].items])
    \o params.block.items

\* what an item gives for a label once the label is stripped
FunctionOf(li) == BeforeSubunit(DropLabel(LiText(li), "function:"))

SubunitOf(li) == DropLabel(LiText(li), "subunit:")

\* the first of a set of positions, 0 for the empty set
FirstOf(S) == IF S = {} THEN 0 ELSE CHOOSE i \in S : \A j \in S : i <= j

\* C23 as stated: function is taken from the first collected item carrying
\* a 'function:' label and subunit from the first item carrying a
\* 'subunit:' label, whatever the later items hold.
C23_FirstLabelledItemKept ==
    (pc = "done" /\ tool = "_parse_hit_block" /\ result # <<>>)
    => LET lis == CollectedItems
           f == FirstOf({i \in 1..Len(lis) : HasLabel(lis[i], "function:")})
           s == FirstOf({i \in 1..Len(lis) : HasLabel(lis[i], "subunit:")})
       IN  /\ result[1].function = IF f = 0 THEN <<>> ELSE FunctionOf(lis[f])
           /\ result[1].subunit = IF s = 0 THEN <<>> ELSE SubunitOf(lis[s])

\* C23 as amended: function is taken from the first collected item carrying
\* a 'function:' label that leaves a non-empty text; subunit is taken from
\* the first item carrying a 'subunit:' label that leaves a non-empty text
\* and is not read as a function item (an item with a 'function:' label at
\* or before the item function is taken from); an item after the one a
\* field is taken from never sets or overwrites the field.
C23_FirstUsableItemKept ==
    (pc = "done" /\ tool = "_parse_hit_block" /\ result # <<>>)
    => LET lis == CollectedItems
           usable == {i \in 1..Len(lis) :
                         HasLabel(lis[i], "function:") /\ FunctionOf(lis[i]) # <<>>}
           f == FirstOf(usable)
           asFunction == {i \in 1..Len(lis) :
                             HasLabel(lis[i], "function:") /\ (f = 0 \/ i <= f)}
           s == FirstOf({i \in 1..Len(lis) :
                            /\ HasLabel(lis[i], "subunit:")
                            /\ i \notin asFunction
                            /\ SubunitOf(lis[i]) # <<>>})
       IN  /\ result[1].function = IF f = 0 THEN <<>> ELSE FunctionOf(lis[f])
           /\ result[1].subunit = IF s = 0 THEN <<>> ELSE SubunitOf(lis[s])

\* C23 witness: two items with a 'function:' label and two with a
\* 'subunit:' label (one of them inside the anchor); the first of each is
\* kept.
C23_Witness ==
    /\ pc = "done" /\ tool = "_parse_hit_block" /\ result # <<>>
    /\ params.trailing_uls = <<Ul(<<LiFunction, LiSubunit, LiFunctionOther>>)>>
    /\ params.block.items = <<LiMerged>>
    /\ result[1].function = <<"septum", "site">>
    /\ result[1].subunit = <<"binds", "MinC">>

-----------------------------------------------------------------------------
(* C24: the snippets of a hit.  _parse_hit_block on blocks whose 'pb::'     *)
(* anchors repeat a title under different links.                            *)

MaxSnippetKids == 2
MaxSnippetUls == 2

SnipARelative == WithHref(SnipA, Href("/pmc/articles/PMC1", <<>>))
SnipAAbsolute == WithHref(SnipA, Href("https://pubmed.ncbi.nlm.nih.gov/1", <<>>))

SnippetElems == {SnipA, SnipARelative, SnipAAbsolute, SnipB, SnipNoTitle, GeneB}

SnippetUls ==
    {Ul(<<Li(<<el>>)>>) : el \in SnippetElems \ {GeneB}}
    \cup {Ul(<<Li(<<SnipB>>), Li(<<SnipAAbsolute>>)>>)}

SnippetInit ==
    /\ pc = "idle"
    /\ tool = "_parse_hit_block"
    /\ params \in {[block |-> HitP(k), trailing_uls |-> t] :
                       k \in SeqsUpTo(SnippetElems, MaxSnippetKids),
                       t \in SeqsUpTo(SnippetUls, MaxSnippetUls)}
    /\ requests = <<>>
    /\ soup = <<>>
    /\ organisms = <<>>
    /\ result = <<>>

SpecSnippets == SnippetInit /\ [][HitBlockNext]_vars

\* the 'pb::' anchors of a block in search order: those of the trailing
\* lists, list by list, then those of the anchor paragraph
PbAnchors ==
    Flatten([i \in 1..Len(params.trailing_uls) |->
                FindAllAnchors(params.trailing_uls[i], "pb")])
    \o FindAllAnchors(params.block, "pb")

\* C24: in every hit _parse_hit_block returns, no two paper_snippets have
\* the same title and none has an empty title; every titled 'pb::' anchor
\* of the block is represented, and the snippet kept for a title shared by
\* several anchors is that of the first one in search order.
C24_SnippetsDeduplicated ==
    (pc = "done" /\ tool = "_parse_hit_block" /\ result # <<>>)
    => LET snips == result[1].paper_snippets
           pbs == PbAnchors
       IN  /\ \A i, j \in 1..Len(snips) : snips[i].title = snips[j].title => i = j
           /\ \A i \in 1..Len(snips) : snips[i].title # <<>>
           /\ \A k \in 1..Len(pbs) :
                  pbs[k].text # <<>> => \E i \in 1..Len(snips) : snips[i].title = pbs[k].text
           /\ \A i \in 1..Len(snips) :
                  LET same == {k \in 1..Len(pbs) : pbs[k].text = snips[i].title}
                  IN  /\ same # {}
                      /\ snips[i].url = SnippetUrl(pbs[FirstOf(same)].href)

\* C24 witness: three anchors with one title, in two trailing lists and in
\* the anchor paragraph, each under another link: one snippet, with the
\* link of the first (made absolute).
C24_Witness ==
    /\ pc = "done" /\ tool = "_parse_hit_block" /\ result # <<>>
    /\ params.trailing_uls = <<Ul(<<Li(<<SnipARelative>>)>>), Ul(<<Li(<<SnipAAbsolute>>)>>)>>
    /\ params.block.kids = <<GeneB, SnipA>>
    /\ Len(result[1].paper_snippets) = 1
    /\ result[1].paper_snippets[1].url.path
         = "https://papers.genomics.lbl.gov/pmc/articles/PMC1"

-----------------------------------------------------------------------------
(* C25: the fallback chain of detail_id.                                    *)

\* the "more=" links below one search target, in document order
MoreLinks(target) ==
    SelectSeq(Elements(target), LAMBDA el : el.tag = "a" /\ IsMoreHref(el.href))

\* the search targets of a call: the trailing lists, then the anchor
SearchTargets == params.trailing_uls \o <<params.block>>

\* a gene entry from SwissProt named 'NAME / ACCESSION' or by a bare
\* accession, the accession matching the pattern of its format
NamesAccession(ge) ==
    /\ HasSwissProt(ge.db)
    /\ \/ /\ Len(ge.name) = 3 /\ ge.name[2] = "/"
          /\ MatchesAccession(TokChars(ge.name[3]))
       \/ /\ Len(ge.name) = 1
          /\ MatchesUniProt(TokChars(ge.name[1]))

\* the detail_id the gene entries give: the accession of the first entry
\* that names one, else empty
FromEntries(gene_entries) ==
    LET named == {k \in 1..Len(gene_entries) : NamesAccession(gene_entries[k])}
    IN  IF named = {} THEN <<>>
        ELSE LET ge == gene_entries[FirstOf(named)]
             IN  TokChars(ge.name[Len(ge.name)])

-----------------------------------------------------------------------------
(* C26: the substring stage of the resolver.                                *)

\* the positions of the index whose name contains the trimmed, lowercased
\* query
Containing ==
    {i \in 1..Len(organisms) :
        Contains(Lower(organisms[i].name), Strip(Lower(params.query)))}

\* no name of the index equals the trimmed query case-insensitively
NoExactName ==
    \A i \in 1..Len(organisms) : Lower(organisms[i].name) # Strip(Lower(params.query))

\* C26: when no name equals the query exactly but at least one name contains
\* it case-insensitively, _find_organism_id returns an organism of the index
\* whose name contains the query and no containing name is shorter; the
\* similarity stage is not consulted, so the answer is a containing name
\* even where another name is more similar to the query.
C26_ShortestContainingName ==
    (pc = "done" /\ tool = "_find_organism_id" /\ NoExactName /\ Containing # {})
    => /\ \E i \in Containing : organisms[i] = result
       /\ \A j \in Containing : Len(result.name) <= Len(organisms[j].name)

\* C26 witness: the query "ba" on an index holding a long name that
\* contains it and a short name that does not but is more similar to it (the
\* one the similarity stage would rank first): the containing name is
\* returned.
C26_Witness ==
    /\ pc = "done" /\ tool = "_find_organism_id" /\ NoExactName
    /\ params.query = <<"b", "a">>
    /\ Len(organisms) = 2
    /\ Containing = {1}
    /\ GetCloseMatches(Strip(Lower(params.query)),
                       {Lower(organisms[i].name) : i \in 1..2}) = {Lower(organisms[2].name)}
    /\ result = organisms[1]

-----------------------------------------------------------------------------
(* C27: the empty drill-down result.                                        *)

\* the warnings hold the explanation of the identifier formats
HasNoPapersWarning(warnings) ==
    \E k \in 1..Len(warnings) : warnings[k].kind = "no_papers"

\* C27: paperblast_gene_papers answers every page it retrieves with an
\* envelope, never an error; the warnings of the envelope contain the
\* identifier-format explanation exactly when the parsed page yields no
\* hits and a total of 0, and never when at least one hit was parsed.
C27_EmptyResultIsWarning ==
    /\ []((pc = "done" /\ tool = "paperblast_gene_papers"
              /\ result.kind = "GenePapersResults")
          => /\ HasNoPapersWarning(result.warnings)
                  <=> (result.hits = <<>> /\ TotalFound(soup) = 0)
             /\ result.hits # <<>> => ~HasNoPapersWarning(result.warnings))
    /\ [][RespondGenePapers => result'.kind = "GenePapersResults"]_vars

\* C27 witness: a page without hits and without a count, answered by an
\* envelope with no hits, total 0 and the explanation for the identifier
\* that was requested as its one warning.
C27_Witness ==
    /\ pc = "done" /\ tool = "paperblast_gene_papers"
    /\ soup = <<>>
    /\ result.kind = "GenePapersResults"
    /\ result.hits = <<>> /\ result.total_found = 0
    /\ result.warnings = <<Warning("no_papers", NormalizeGeneId(params.gene_id), 0, 0)>>

-----------------------------------------------------------------------------
(* C28: identity and coverage.  _parse_hit_block on blocks with alignment   *)
(* links that state both percentages, one of them or none.                  *)

MaxAlignLinks == 3

SmallerLink(text) ==
    WithStyle(El("a", <<>>, text), "font-family: sans-serif; font-size: smaller;")

FullLink == SmallerLink(<<"100%", "identity,", "100%", "coverage">>)
IdentityOnlyLink == SmallerLink(<<"45%", "identity">>)
CoverageOnlyLink == SmallerLink(<<"98%", "coverage">>)
WordsFirstLink == SmallerLink(<<"identity", "45%", "of", "coverage">>)
UnstyledLink == El("a", <<>>, <<"45%", "identity,", "45%", "coverage">>)

AlignLinks ==
    {IdentityLink, FullLink, IdentityOnlyLink, CoverageOnlyLink, WordsFirstLink,
     UnstyledLink}

AlignInit ==
    /\ pc = "idle"
    /\ tool = "_parse_hit_block"
    /\ params \in {[block |-> HitP(<<GeneB>> \o k), trailing_uls |-> <<>>] :
                       k \in SeqsUpTo(AlignLinks, MaxAlignLinks)}
    /\ requests = <<>>
    /\ soup = <<>>
    /\ organisms = <<>>
    /\ result = <<>>

SpecAlign == AlignInit /\ [][HitBlockNext]_vars

\* the percentages a link can state
PercentWords == {"98%", "100%", "45%"}

\* the text of the smaller-font anchor of the block, empty without one
SmallerFontText ==
    LET kids == params.block.kids
        at == {k \in 1..Len(kids) : kids[k].tag = "a" /\ IsSmallerStyle(kids[k].style)}
    IN  IF at = {} THEN <<>> ELSE kids[FirstOf(at)].text

\* the text contains 'N% identity' (or 'N% coverage'), the word possibly
\* followed by a comma
States(text, n, word) ==
    \E i \in 1..(Len(text) - 1) :
        /\ text[i] = n
        /\ text[i + 1] \in (IF word = "identity" THEN {"identity", "identity,"}
                            ELSE {"coverage", "coverage,"})

\* C28: identity is 'N%' iff the text of the smaller-font anchor contains
\* 'N% identity' and is empty otherwise; coverage is 'M%' iff that text
\* contains 'M% coverage' and is empty otherwise; each is read whether or
\* not the other is present.
C28_IdentityCoverageIndependent ==
    (pc = "done" /\ tool = "_parse_hit_block" /\ result # <<>>)
    => LET text == SmallerFontText
       IN  /\ \A n \in PercentWords :
                  /\ result[1].identity = <<n>> <=> States(text, n, "identity")
                  /\ result[1].coverage = <<n>> <=> States(text, n, "coverage")
           /\ result[1].identity = <<>>
                  <=> \A n \in PercentWords : ~States(text, n, "identity")
           /\ result[1].coverage = <<>>
                  <=> \A n \in PercentWords : ~States(text, n, "coverage")

\* C28 witness: a link that reads '45% identity' and states no coverage:
\* identity is '45%' and coverage is empty.
C28_Witness ==
    /\ pc = "done" /\ tool = "_parse_hit_block" /\ result # <<>>
    /\ params.block.kids = <<GeneB, IdentityOnlyLink>>
    /\ result[1].identity = <<"45%">>
    /\ result[1].coverage = <<>>

-----------------------------------------------------------------------------
(* C29: the roles of an anchor.  _parse_hit_block on blocks whose anchors   *)
(* carry one marker, or a marker inside the identifier of another.          *)

MaxMarkedKids == 3

\* onmousedown="logger(this,'curated::pb::X')": a curated entry whose
\* identifier starts with "pb::"
EntryWithPbId == El("a", <<"curated", "pb", "X">>, <<"Title", "C">>)

\* onmousedown="logger(this,'curatedpaper::pb::X')"
CountWithPbId == El("a", <<"curatedpaper", "pb", "X">>, <<"3", "papers">>)

\* onmousedown="logger(this,'curated::SwissProt::P0AEZ3')"
EntryWithDbId == El("a", <<"curated", "SwissProt", "P0AEZ3">>, <<"P0AEZ3">>)

MarkedElems == {GeneB, Papers2, SnipA, PlainLink, EntryWithPbId, CountWithPbId, EntryWithDbId}

MarkedInit ==
    /\ pc = "idle"
    /\ tool = "_parse_hit_block"
    /\ params \in {[block |-> HitP(k), trailing_uls |-> <<>>] :
                       k \in SeqsUpTo(MarkedElems, MaxMarkedKids)}
    /\ requests = <<>>
    /\ soup = <<>>
    /\ organisms = <<>>
    /\ result = <<>>

SpecMarked == MarkedInit /\ [][HitBlockNext]_vars

\* the roles in which a hit holds an anchor: as a gene entry (by its name),
\* as a counted paper link (a 'curatedpaper::' anchor whose number is in the
\* total), as a snippet (by its title)
RolesIn(hit, a) ==
    {r \in {"entry", "count", "snippet"} :
        \/ r = "entry" /\ \E k \in 1..Len(hit.gene_entries) :
                              hit.gene_entries[k].name = ElText(a)
        \/ r = "count" /\ HasMarker(a, "curatedpaper")
                       /\ PaperCountOf(a.text) > 0
                       /\ hit.total_curated_papers >= PaperCountOf(a.text)
        \/ r = "snippet" /\ \E k \in 1..Len(hit.paper_snippets) :
                                hit.paper_snippets[k].title = a.text}

\* C29: no anchor of a block is counted in more than one of the three roles
\* (curated gene entry, curated paper count, text-mined snippet), whatever
\* marker string it carries.
C29_OneRolePerAnchor ==
    (pc = "done" /\ tool = "_parse_hit_block" /\ result # <<>>)
    => \A k \in 1..Len(params.block.kids) :
           params.block.kids[k].tag = "a"
           => Cardinality(RolesIn(result[1], params.block.kids[k])) <= 1

\* the marker string of an anchor holds one of the three markers only
SingleMarker(a) ==
    Cardinality({key \in {"curated", "curatedpaper", "pb"} : HasMarker(a, key)}) <= 1

\* the anchors with one marker have one role: every anchor in two roles
\* carries two markers
OneRolePerSingleMarker ==
    (pc = "done" /\ tool = "_parse_hit_block" /\ result # <<>>)
    => \A k \in 1..Len(params.block.kids) :
           (params.block.kids[k].tag = "a" /\ SingleMarker(params.block.kids[k]))
           => Cardinality(RolesIn(result[1], params.block.kids[k])) <= 1

-----------------------------------------------------------------------------
(* C30: what the resolver returns and what gapmind_check does with it.  The *)
(* resolver called on its own and as the second step of gapmind_check.      *)

ResolverUseInit == ResolverInit \/ GapmindInit

\* a direct call of the resolver is no tool invocation: the handlers start
\* from the idle state of the server only
ResolverUseNext ==
    \/ ResolverNext
    \/ (tool # "_find_organism_id" /\ GapmindNext)

SpecResolverUse == ResolverUseInit /\ [][ResolverUseNext]_vars

\* C30: _find_organism_id returns none or an element of the index it was
\* given, with that element's own org_id and name, and none for an empty
\* index; the second request of gapmind_check carries the org_id of the
\* element returned for the index it parsed, and so does the envelope.
C30_NeverFabricates ==
    /\ (tool = "_find_organism_id" /\ pc = "done")
       => /\ result = NoOrganism \/ \E i \in 1..Len(organisms) : organisms[i] = result
          /\ organisms = <<>> => result = NoOrganism
    /\ (tool = "gapmind_check" /\ params.org_id = 0 /\ Len(requests) = 2)
       => LET returned == {FindOrganismId(organisms, params.organism)}
                            \cap {organisms[i] : i \in 1..Len(organisms)}
          IN  /\ returned # {}
              /\ \A match \in returned :
                    /\ requests[2] = PathwayRequest(params.analysis_type, match.org_id)
                    /\ (pc = "done" /\ result.kind = "GapMindResults")
                       => result.org_id = match.org_id

\* C30 witness: gapmind_check asked for "az" on an index page whose second
\* link has no text: the parsed index holds the organisms 1 and 3, the
\* similarity stage returns the second of them, "ba", and the pathway
\* request carries its org_id 3.
C30_Witness ==
    /\ tool = "gapmind_check" /\ pc = "await2" /\ params.org_id = 0
    /\ params.organism = <<"a", "z">>
    /\ organisms = <<[org_id |-> 1, name |-> <<"b", "b">>],
                     [org_id |-> 3, name |-> <<"b", "a">>]>>
    /\ requests[2] = PathwayRequest(params.analysis_type, 3)

-----------------------------------------------------------------------------
\* C7: whenever some organism's name equals the trimmed query
\* case-insensitively, _find_organism_id returns an organism of the index
\* whose name equals it too (an exact match), whatever substring or
\* similarity candidates the index also holds.
C7_ExactMatchWins ==
    (pc = "done" /\ tool = "_find_organism_id"
       /\ \E i \in 1..Len(organisms) :
              Lower(organisms[i].name) = Strip(Lower(params.query)))
    => /\ \E i \in 1..Len(organisms) : organisms[i] = result
       /\ Lower(result.name) = Strip(Lower(params.query))

\* C7 witness: the exact match was returned although an earlier entry of the
\* index, a different name, contains the query.
C7_Witness ==
    /\ pc = "done" /\ tool = "_find_organism_id"
    /\ Len(organisms) = 2
    /\ Lower(organisms[2].name) = Strip(Lower(params.query))
    /\ Lower(organisms[1].name) # Strip(Lower(params.query))
    /\ Contains(Lower(organisms[1].name), Strip(Lower(params.query)))
    /\ result = organisms[2]

=============================================================================
